---- MODULE Spec2Model ----
(***************************************************************************)
(* The Amplitude OpenFeature provider (providers/amplitude): the provider  *)
(* lifecycle, the projection of an evaluation context onto an Amplitude    *)
(* user, the client adapters and the five typed evaluation methods.        *)
(*                                                                         *)
(* Strings whose characters matter (variant payloads that are parsed) are  *)
(* sequences of one-character strings; all other strings are atoms.        *)
(* A float64 is a decimal  m * 10^(-e)  in lowest form (e = 0 or m not a   *)
(* multiple of 10).                                                        *)
(***************************************************************************)
EXTENDS Integers, Sequences, FiniteSets, TLC

VARIABLES state, config, last, norm, entry, remote, life, running, tracking,
          projection

vars == <<state, config, last, norm, entry, remote, life, running, tracking,
          projection>>

----------------------------------------------------------------------------
(* Bounds                                                                  *)

\* longest payload string drawn for a variant
MaxStrLen == 2

\* most attributes in an evaluation context drawn for the projection
MaxCtxKeys == 2

----------------------------------------------------------------------------
(* Values: payloads of variants, defaults and results.                     *)
(* t is the Go dynamic type; b, m/e and s hold the bool, number and        *)
(* string (or the identity of an array / object) of the value.             *)

MkVal(t, b, m, e, s) == [t |-> t, b |-> b, m |-> m, e |-> e, s |-> s]

NilVal == MkVal("nil", FALSE, 0, 0, <<>>)

BoolVal(b) == MkVal("bool", b, 0, 0, <<>>)

RECURSIVE Norm(_, _)
\* lowest form of the decimal m * 10^(-e)
Norm(m, e) ==
    IF e > 0 /\ (IF m < 0 THEN -m ELSE m) % 10 = 0
    THEN Norm((IF m < 0 THEN -((-m) \div 10) ELSE m \div 10), e - 1)
    ELSE <<m, e>>

FloatVal(m, e) == MkVal("float64", FALSE, Norm(m, e)[1], Norm(m, e)[2], <<>>)

IntVal(i) == MkVal("int64", FALSE, i, 0, <<>>)

StringVal(s) == MkVal("string", FALSE, 0, 0, s)

\* encoding/json.Number: a string type distinct from string
NumberVal(s) == MkVal("json.Number", FALSE, 0, 0, s)

ArrayVal(id) == MkVal("[]any", FALSE, 0, 0, <<id>>)

ObjectVal(id) == MkVal("map[string]any", FALSE, 0, 0, <<id>>)

----------------------------------------------------------------------------
(* strconv                                                                 *)

Digits == {"0", "1", "2", "3", "4", "5", "6", "7", "8", "9"}

DigitVal(c) ==
    CASE c = "0" -> 0 [] c = "1" -> 1 [] c = "2" -> 2 [] c = "3" -> 3
      [] c = "4" -> 4 [] c = "5" -> 5 [] c = "6" -> 6 [] c = "7" -> 7
      [] c = "8" -> 8 [] c = "9" -> 9

AllDigits(s) == \A i \in 1..Len(s) : s[i] \in Digits

RECURSIVE DecValue(_)
\* the number written by a sequence of decimal digits
DecValue(s) ==
    IF s = <<>> THEN 0
    ELSE 10 * DecValue(SubSeq(s, 1, Len(s) - 1)) + DigitVal(s[Len(s)])

Pow10(e) == IF e = 0 THEN 1 ELSE IF e = 1 THEN 10 ELSE IF e = 2 THEN 100
            ELSE IF e = 3 THEN 1000 ELSE 10000

ParseFail == [ok |-> FALSE, m |-> 0, e |-> 0]

Unsigned(s) == IF s # <<>> /\ (s[1] = "+" \/ s[1] = "-") THEN Tail(s) ELSE s

IsNeg(s) == s # <<>> /\ s[1] = "-"

\* strconv.ParseInt(s, 10, 64): an optional sign, then one or more decimal
\* digits.  The strings drawn here are shorter than 19 digits, so the
\* 64-bit range error cannot arise.
ParseInt(s) ==
    LET body == Unsigned(s)
    IN  IF body = <<>> \/ ~AllDigits(body) THEN ParseFail
        ELSE [ok |-> TRUE,
              m |-> IF IsNeg(s) THEN -DecValue(body) ELSE DecValue(body),
              e |-> 0]

DotAt(s) == {i \in 1..Len(s) : s[i] = "."}

\* strconv.ParseFloat(s, 64) on strings of signs, digits and dots: an
\* optional sign, then digits with at most one dot and at least one digit.
\* (The exponent, hexadecimal, inf and nan forms need letters.)
ParseFloat(s) ==
    LET body == Unsigned(s)
        dots == DotAt(body)
    IN  IF Cardinality(dots) > 1 THEN ParseFail
        ELSE LET d    == IF dots = {} THEN Len(body) + 1 ELSE CHOOSE i \in dots : TRUE
                 ip   == SubSeq(body, 1, d - 1)
                 fp   == SubSeq(body, d + 1, Len(body))
                 mant == ip \o fp
             IN  IF mant = <<>> \/ ~AllDigits(mant) THEN ParseFail
                 ELSE LET v == IF IsNeg(s) THEN -DecValue(mant) ELSE DecValue(mant)
                      IN  [ok |-> TRUE, m |-> Norm(v, Len(fp))[1],
                           e |-> Norm(v, Len(fp))[2]]

\* Go's conversion int64(f) of a float64 within the int64 range: the
\* fractional part is discarded (truncation toward zero)
TruncFloorToInt(m, e) == m \div Pow10(e)

TruncToInt(m, e) ==
    IF m < 0 THEN -((-m) \div Pow10(e)) ELSE m \div Pow10(e)

----------------------------------------------------------------------------
(* Variants, resolution details                                            *)

variantKeyOff == "off"

ProviderNotReadyCode == "PROVIDER_NOT_READY"
GeneralCode == "GENERAL"
InvalidContextCode == "INVALID_CONTEXT"
FlagNotFoundCode == "FLAG_NOT_FOUND"
TypeMismatchCode == "TYPE_MISMATCH"

DefaultReason == "DEFAULT"
ErrorReason == "ERROR"

NotReadyState == "NOT_READY"
ReadyState == "READY"
ErrorState == "ERROR"

\* experiment.Variant as makeVariant builds it
makeVariant(key, value, payload) == [Key |-> key, Value |-> value, Payload |-> payload]

NoVariant == makeVariant("", "", NilVal)

\* a nil map[string]any
NoMetadata == <<>>

\* <<metadata["key"], metadata["value"]>>
variantMetadata(variant) == <<variant.Key, variant.Value>>

\* of.ProviderResolutionDetail with the typed Value
Detail(value, variant, reason, err, metadata) ==
    [Value |-> value, Variant |-> variant, Reason |-> reason,
     ResolutionError |-> err, FlagMetadata |-> metadata]

\* the branch every method takes when evaluateFlag returns a resolution error
ErrorDetail(defaultValue, resErr) ==
    Detail(defaultValue, "", ErrorReason, resErr, NoMetadata)

DefaultDetail(defaultValue) ==
    Detail(defaultValue, "", DefaultReason, "", NoMetadata)

ResolvedDetail(value, variant) ==
    Detail(value, variant.Key, "", "", variantMetadata(variant))

TypeMismatchDetail(defaultValue) ==
    Detail(defaultValue, "", ErrorReason, TypeMismatchCode, NoMetadata)

(* The typed methods after the call of evaluateFlag.  ef is what           *)
(* evaluateFlag returned: ef.err the resolution error ("" for nil),        *)
(* ef.isNil whether the variant pointer is nil, ef.variant the variant.    *)

BooleanCoerceDefaulting(ef, defaultValue) ==
    IF ef.err # "" THEN ErrorDetail(defaultValue, ef.err)
    ELSE IF ef.isNil \/ ef.variant.Key = variantKeyOff THEN DefaultDetail(defaultValue)
    ELSE IF ef.variant.Payload.t = "bool"
         THEN ResolvedDetail(BoolVal(ef.variant.Payload.b), ef.variant)
    ELSE IF ef.variant.Payload.t = "nil" THEN DefaultDetail(defaultValue)
    ELSE ResolvedDetail(BoolVal(TRUE), ef.variant)

BooleanCoerce(ef, defaultValue) ==
    IF ef.err # "" THEN ErrorDetail(defaultValue, ef.err)
    ELSE IF ef.isNil \/ ef.variant.Key = variantKeyOff THEN DefaultDetail(defaultValue)
    ELSE IF ef.variant.Payload.t = "bool"
         THEN ResolvedDetail(BoolVal(ef.variant.Payload.b), ef.variant)
    ELSE ResolvedDetail(BoolVal(TRUE), ef.variant)

StringCoerceLenient(ef, defaultValue) ==
    IF ef.err # "" THEN ErrorDetail(defaultValue, ef.err)
    ELSE IF ef.isNil THEN DefaultDetail(defaultValue)
    ELSE IF ef.variant.Payload.t = "string" \/ ef.variant.Payload.t = "json.Number"
         THEN ResolvedDetail(StringVal(ef.variant.Payload.s), ef.variant)
    ELSE IF ef.variant.Payload.t = "nil" THEN DefaultDetail(defaultValue)
    ELSE TypeMismatchDetail(defaultValue)

StringCoerce(ef, defaultValue) ==
    IF ef.err # "" THEN ErrorDetail(defaultValue, ef.err)
    ELSE IF ef.isNil THEN DefaultDetail(defaultValue)
    ELSE IF ef.variant.Payload.t = "string"
         THEN ResolvedDetail(ef.variant.Payload, ef.variant)
    ELSE IF ef.variant.Payload.t = "nil" THEN DefaultDetail(defaultValue)
    ELSE TypeMismatchDetail(defaultValue)

FloatCoerceStrings(ef, defaultValue) ==
    IF ef.err # "" THEN ErrorDetail(defaultValue, ef.err)
    ELSE IF ef.isNil THEN DefaultDetail(defaultValue)
    ELSE LET p == ef.variant.Payload
         IN  IF p.t = "float64" THEN ResolvedDetail(p, ef.variant)
             ELSE IF p.t = "json.Number" \/ p.t = "string"
                  THEN LET r == ParseFloat(p.s)
                       IN  IF ~r.ok THEN TypeMismatchDetail(defaultValue)
                           ELSE ResolvedDetail(FloatVal(r.m, r.e), ef.variant)
             ELSE IF p.t = "nil" THEN DefaultDetail(defaultValue)
             ELSE TypeMismatchDetail(defaultValue)

FloatCoerce(ef, defaultValue) ==
    IF ef.err # "" THEN ErrorDetail(defaultValue, ef.err)
    ELSE IF ef.isNil THEN DefaultDetail(defaultValue)
    ELSE LET p == ef.variant.Payload
         IN  IF p.t = "float64" THEN ResolvedDetail(p, ef.variant)
             ELSE IF p.t = "json.Number"
                  THEN LET r == ParseFloat(p.s)
                       IN  IF ~r.ok THEN TypeMismatchDetail(defaultValue)
                           ELSE ResolvedDetail(FloatVal(r.m, r.e), ef.variant)
             ELSE IF p.t = "nil" THEN DefaultDetail(defaultValue)
             ELSE TypeMismatchDetail(defaultValue)

IntCoerce(ef, defaultValue) ==
    IF ef.err # "" THEN ErrorDetail(defaultValue, ef.err)
    ELSE IF ef.isNil THEN DefaultDetail(defaultValue)
    ELSE LET p == ef.variant.Payload
         IN  IF p.t = "float64"
             THEN ResolvedDetail(IntVal(TruncToInt(p.m, p.e)), ef.variant)
             ELSE IF p.t = "json.Number" \/ p.t = "string"
                  THEN LET r == ParseInt(p.s)
                       IN  IF ~r.ok THEN TypeMismatchDetail(defaultValue)
                           ELSE ResolvedDetail(IntVal(r.m), ef.variant)
             ELSE IF p.t = "nil" THEN DefaultDetail(defaultValue)
             ELSE TypeMismatchDetail(defaultValue)

ObjectCoerce(ef, defaultValue) ==
    IF ef.err # "" THEN ErrorDetail(defaultValue, ef.err)
    ELSE IF ef.isNil THEN DefaultDetail(defaultValue)
    ELSE LET result == IF ef.variant.Payload.t = "nil" THEN defaultValue
                       ELSE ef.variant.Payload
         IN  ResolvedDetail(result, ef.variant)

Methods == {"Boolean", "String", "Float", "Int", "Object"}

\* the method's code after evaluateFlag has returned
Coerce(method, ef, defaultValue) ==
    CASE method = "Boolean" -> BooleanCoerce(ef, defaultValue)
      [] method = "String"  -> StringCoerce(ef, defaultValue)
      [] method = "Float"   -> FloatCoerce(ef, defaultValue)
      [] method = "Int"     -> IntCoerce(ef, defaultValue)
      [] method = "Object"  -> ObjectCoerce(ef, defaultValue)

----------------------------------------------------------------------------
(* Evaluation contexts and their projection onto experiment.User           *)

\* Go strings that the code takes apart (attribute names, canonical keys)
\* are sequences of one-character strings.

\* the canonical keys
KeyUserID == <<"u", "s", "e", "r", "_", "i", "d">>
KeyDeviceID == <<"d", "e", "v", "i", "c", "e", "_", "i", "d">>
KeyCountry == <<"c", "o", "u", "n", "t", "r", "y">>
KeyRegion == <<"r", "e", "g", "i", "o", "n">>
KeyDMA == <<"d", "m", "a">>
KeyCity == <<"c", "i", "t", "y">>
KeyLanguage == <<"l", "a", "n", "g", "u", "a", "g", "e">>
KeyPlatform == <<"p", "l", "a", "t", "f", "o", "r", "m">>
KeyVersion == <<"v", "e", "r", "s", "i", "o", "n">>
KeyOS == <<"o", "s">>
KeyDeviceManufacturer == <<"d", "e", "v", "i", "c", "e", "_", "m", "a", "n", "u", "f", "a", "c", "t", "u", "r", "e", "r">>
KeyDeviceBrand == <<"d", "e", "v", "i", "c", "e", "_", "b", "r", "a", "n", "d">>
KeyDeviceModel == <<"d", "e", "v", "i", "c", "e", "_", "m", "o", "d", "e", "l">>
KeyCarrier == <<"c", "a", "r", "r", "i", "e", "r">>
KeyLibrary == <<"l", "i", "b", "r", "a", "r", "y">>
KeyUserProperties == <<"u", "s", "e", "r", "_", "p", "r", "o", "p", "e", "r", "t", "i", "e", "s">>
KeyGroupProperties == <<"g", "r", "o", "u", "p", "_", "p", "r", "o", "p", "e", "r", "t", "i", "e", "s">>
KeyGroups == <<"g", "r", "o", "u", "p", "s">>
KeyCohortIDs == <<"c", "o", "h", "o", "r", "t", "_", "i", "d", "s">>
KeyGroupCohortIDSet == <<"g", "r", "o", "u", "p", "_", "c", "o", "h", "o", "r", "t", "_", "i", "d", "s">>
KeyTime == <<"t", "i", "m", "e">>
KeyInsertID == <<"i", "n", "s", "e", "r", "t", "_", "i", "d">>
KeyLocationLat == <<"l", "o", "c", "a", "t", "i", "o", "n", "_", "l", "a", "t">>
KeyLocationLng == <<"l", "o", "c", "a", "t", "i", "o", "n", "_", "l", "n", "g">>
KeyAppVersion == <<"a", "p", "p", "_", "v", "e", "r", "s", "i", "o", "n">>
KeyVersionName == <<"v", "e", "r", "s", "i", "o", "n", "_", "n", "a", "m", "e">>
KeyOSName == <<"o", "s", "_", "n", "a", "m", "e">>
KeyOSVersion == <<"o", "s", "_", "v", "e", "r", "s", "i", "o", "n">>
KeyIDFA == <<"i", "d", "f", "a">>
KeyIDFV == <<"i", "d", "f", "v">>
KeyADID == <<"a", "d", "i", "d">>
KeyAndroidID == <<"a", "n", "d", "r", "o", "i", "d", "_", "i", "d">>
KeyIP == <<"i", "p">>
KeyPrice == <<"p", "r", "i", "c", "e">>
KeyQuantity == <<"q", "u", "a", "n", "t", "i", "t", "y">>
KeyRevenue == <<"r", "e", "v", "e", "n", "u", "e">>
KeyCurrency == <<"c", "u", "r", "r", "e", "n", "c", "y">>
KeyProductID == <<"p", "r", "o", "d", "u", "c", "t", "I", "d">>
KeyRevenueType == <<"r", "e", "v", "e", "n", "u", "e", "T", "y", "p", "e">>
KeyEventID == <<"e", "v", "e", "n", "t", "_", "i", "d">>
KeySessionID == <<"s", "e", "s", "s", "i", "o", "n", "_", "i", "d">>
KeyPartnerID == <<"p", "a", "r", "t", "n", "e", "r", "_", "i", "d">>
KeyPlan == <<"p", "l", "a", "n">>
KeyIngestionMetadata == <<"i", "n", "g", "e", "s", "t", "i", "o", "n", "_", "m", "e", "t", "a", "d", "a", "t", "a">>
KeyEventProperties == <<"e", "v", "e", "n", "t", "_", "p", "r", "o", "p", "e", "r", "t", "i", "e", "s">>
KeyEventType == <<"e", "v", "e", "n", "t", "_", "t", "y", "p", "e">>

eventKeys ==
    <<KeyTime, KeyInsertID, KeyLocationLat, KeyLocationLng,
       KeyAppVersion, KeyVersionName, KeyOSName, KeyOSVersion,
       KeyIDFA, KeyIDFV, KeyADID, KeyAndroidID,
       KeyIP, KeyPrice, KeyQuantity, KeyRevenue,
       KeyCurrency, KeyProductID, KeyRevenueType, KeyEventID,
       KeySessionID, KeyPartnerID, KeyPlan, KeyIngestionMetadata,
       KeyEventProperties, KeyEventType>>

userKeys ==
    <<KeyUserID, KeyDeviceID, KeyCountry, KeyRegion,
       KeyDMA, KeyCity, KeyLanguage, KeyPlatform,
       KeyDeviceManufacturer, KeyDeviceBrand, KeyDeviceModel, KeyCarrier,
       KeyLibrary, KeyUserProperties, KeyGroupProperties, KeyGroups,
       KeyVersion, KeyOS, KeyCohortIDs, KeyGroupCohortIDSet>>

sharedKeys ==
    <<KeyUserID, KeyDeviceID, KeyCountry, KeyRegion,
       KeyDMA, KeyCity, KeyLanguage, KeyPlatform,
       KeyDeviceManufacturer, KeyDeviceBrand, KeyDeviceModel, KeyCarrier,
       KeyLibrary, KeyUserProperties, KeyGroupProperties, KeyGroups>>

allKeys == userKeys \o eventKeys \o sharedKeys

TargetingKey == <<"t", "a", "r", "g", "e", "t", "i", "n", "g", "K", "e", "y">>

LowerLetters ==
    <<"a", "b", "c", "d", "e", "f", "g", "h", "i", "j", "k", "l", "m",
      "n", "o", "p", "q", "r", "s", "t", "u", "v", "w", "x", "y", "z">>

UpperLetters ==
    <<"A", "B", "C", "D", "E", "F", "G", "H", "I", "J", "K", "L", "M",
      "N", "O", "P", "Q", "R", "S", "T", "U", "V", "W", "X", "Y", "Z">>

LetterIndex(c, letters) ==
    IF \E i \in DOMAIN letters : letters[i] = c
    THEN CHOOSE i \in DOMAIN letters : letters[i] = c ELSE 0

\* strings.ToUpper and strings.ToLower
ToUpper(s) ==
    [i \in DOMAIN s |->
        IF LetterIndex(s[i], LowerLetters) # 0
        THEN UpperLetters[LetterIndex(s[i], LowerLetters)] ELSE s[i]]

ToLower(s) ==
    [i \in DOMAIN s |->
        IF LetterIndex(s[i], UpperLetters) # 0
        THEN LowerLetters[LetterIndex(s[i], UpperLetters)] ELSE s[i]]

\* strings.Contains(value, "_")
ContainsUnderscore(s) == \E i \in DOMAIN s : s[i] = "_"

WordBreakChars == {"_", "^"}

\* reWordBreak.ReplaceAllStringFunc(s, f) from position i on: reWordBreak
\* is [_^]. , a match is an underscore or a caret and the character after
\* it; f turns the match into ToUpper(match[1:]) (camel = TRUE) or into
\* ToLower("-" + match[1:]) (camel = FALSE)
RECURSIVE ReplaceWordBreaks(_, _, _)
ReplaceWordBreaks(s, i, camel) ==
    IF i > Len(s) THEN <<>>
    ELSE IF s[i] \in WordBreakChars /\ i < Len(s)
    THEN (IF camel THEN ToUpper(<<s[i + 1]>>) ELSE ToLower(<<"-", s[i + 1]>>))
             \o ReplaceWordBreaks(s, i + 2, camel)
    ELSE <<s[i]>> \o ReplaceWordBreaks(s, i + 1, camel)

\* strings.CutSuffix
HasSuffix(s, suffix) ==
    /\ Len(s) >= Len(suffix)
    /\ SubSeq(s, Len(s) - Len(suffix) + 1, Len(s)) = suffix

CutSuffix(s, suffix) == SubSeq(s, 1, Len(s) - Len(suffix))

\* makePermutations: the spellings of a canonical key, in the order the
\* code appends them
makePermutations(key) ==
    LET value == IF key = KeyRevenueType
                 THEN <<"r", "e", "v", "e", "n", "u", "e", "_", "t", "y", "p", "e">>
                 ELSE key
    IN  <<value, ToLower(value), ToUpper(value)>>
        \o (IF ContainsUnderscore(value)
            THEN <<ReplaceWordBreaks(value, 1, TRUE), ReplaceWordBreaks(value, 1, FALSE)>>
            ELSE <<>>)
        \o (IF HasSuffix(value, <<"_", "i", "d", "s">>)
            THEN LET withoutSuffix == CutSuffix(value, <<"_", "i", "d", "s">>)
                 IN  <<withoutSuffix \o <<"I", "D", "s">>,
                       ToLower(withoutSuffix \o <<"-", "i", "d", "s">>),
                       ToLower(withoutSuffix \o <<"i", "d", "s">>)>>
            ELSE <<>>)
        \o (IF HasSuffix(value, <<"_", "i", "d">>)
            THEN LET withoutSuffix == CutSuffix(value, <<"_", "i", "d">>)
                 IN  <<withoutSuffix \o <<"I", "D">>,
                       ToLower(withoutSuffix \o <<"-", "i", "d">>),
                       ToLower(withoutSuffix \o <<"i", "d">>)>>
            ELSE <<>>)

\* the permutations of a key as a set
Spellings(key) ==
    LET perms == makePermutations(key) IN {perms[i] : i \in DOMAIN perms}

\* the permutations of each key of allKeys
allSpellings == [i \in DOMAIN allKeys |-> Spellings(allKeys[i])]

\* the position in allKeys of the last key that has spelling a among its
\* permutations
lastWriter(a) ==
    CHOOSE i \in DOMAIN allKeys :
        /\ a \in allSpellings[i]
        /\ \A j \in (i + 1)..Len(allKeys) : a \notin allSpellings[j]

DefaultKeyMapOfValues ==
    [a \in (UNION {allSpellings[i] : i \in DOMAIN allKeys}) \cup {TargetingKey} |->
        IF a = TargetingKey THEN KeyUserID
        ELSE makePermutations(allKeys[lastWriter(a)])[1]]

\* DefaultKeyMap(): the loop sets each permutation of each key of allKeys
\* to the key, in the order of allKeys, so a spelling maps to the last key
\* that has it; then the targeting key is set to user_id
DefaultKeyMap ==
    [a \in (UNION {allSpellings[i] : i \in DOMAIN allKeys}) \cup {TargetingKey} |->
        IF a = TargetingKey THEN KeyUserID ELSE allKeys[lastWriter(a)]]

\* a context value: a Go string, a number, or a channel (which
\* encoding/json cannot marshal)
CtxString(s) == [k |-> "string", s |-> s]
CtxNumber == [k |-> "number", s |-> ""]
CtxChan == [k |-> "chan", s |-> ""]

\* a map[string]any attribute, such as an explicit user_properties
CtxMap(m) == [k |-> "map", s |-> "", m |-> m]

CtxVals == {CtxString(""), CtxString("u1"), CtxNumber, CtxChan}

\* an attribute name DefaultKeyMap() does not know
CustomProp == <<"c", "u", "s", "t", "o", "m", "_", "p", "r", "o", "p">>
OtherProp == <<"o", "t", "h", "e", "r", "_", "p", "r", "o", "p">>

\* a key map set with WithKeyMap: it maps custom_prop to user_id and
\* device_id to itself, and nothing else
CustomKeyMap ==
    [a \in {CustomProp, KeyDeviceID} |-> IF a = CustomProp THEN KeyUserID ELSE KeyDeviceID]

\* Config.KeyMap: nil, the map getKeyMap built, or the map WithKeyMap set
NilKeyMap == "nil"
BuiltKeyMap == "DefaultKeyMap()"
SetKeyMap == "WithKeyMap"

KeyMaps == {NilKeyMap, BuiltKeyMap, SetKeyMap}

\* Config.getKeyMap: sets c.KeyMap to DefaultKeyMap() when it is nil, and
\* returns c.KeyMap.  keyMapAfterGet is the field after the call.
keyMapAfterGet(keyMap) == IF keyMap = NilKeyMap THEN BuiltKeyMap ELSE keyMap

getKeyMap(keyMap) ==
    IF keyMapAfterGet(keyMap) = BuiltKeyMap THEN DefaultKeyMap ELSE CustomKeyMap

\* the lookup resolvedKey, ok := keyMap[key]
lookup(keyMap, key) ==
    IF key \in DOMAIN keyMap THEN [ok |-> TRUE, resolvedKey |-> keyMap[key]]
    ELSE [ok |-> FALSE, resolvedKey |-> <<>>]

\* the attribute names of evaluation contexts: three spellings
\* DefaultKeyMap() knows and one it does not
CtxKeys == {TargetingKey, KeyUserID, KeyDeviceID, CustomProp}

\* spellings of canonical keys in other casings
DeviceIdCamel == <<"d", "e", "v", "i", "c", "e", "I", "d">>
DeviceIdKebab == <<"d", "e", "v", "i", "c", "e", "-", "i", "d">>
DeviceIDPascal == <<"D", "e", "v", "i", "c", "e", "I", "D">>
CountryCapitalised == <<"C", "o", "u", "n", "t", "r", "y">>

\* the attribute names of the maps normalizeContext is called on
NormKeys ==
    {TargetingKey, KeyUserID, KeyDeviceID, DeviceIdCamel, DeviceIdKebab,
     DeviceIDPascal, KeyCountry, CountryCapitalised, CustomProp}

\* every attribute name a context of the model holds
\* the attribute names of the contexts and details of tracking events
EventAttributeNames == {KeyUserID, KeyRevenue, CustomProp}

\* the attribute names of the contexts that carry user properties
PropertyAttributeNames == {TargetingKey, KeyUserProperties, CustomProp, OtherProp}

AttributeNames ==
    CtxKeys \cup NormKeys \cup EventAttributeNames \cup PropertyAttributeNames

\* the lookups of the attribute names of the model in each key map
lookups ==
    [keyMap \in KeyMaps |-> [key \in AttributeNames |-> lookup(getKeyMap(keyMap), key)]]

\* the lookups of normalizeContext's loop: resolvedKey for each attribute
\* name of contextMap for which keyMap[key] reports ok
resolveKeys(keyMap, contextMap) ==
    [k \in {n \in DOMAIN contextMap : lookups[keyMap][n].ok} |->
        lookups[keyMap][k].resolvedKey]

\* the writes of normalizeContext's loop, given the lookups.  Go ranges
\* over contextMap in an unspecified order, so when two attributes resolve
\* to one canonical key either value can be the one left in normalizedMap:
\* from names each canonical key's last writer.
normalizeResolvedKeepAll(contextMap, resolved) ==
    LET hit   == DOMAIN resolved
        canon == {resolved[k] : k \in hit}
    IN  {[normalized |-> [K \in canon |-> contextMap[from[K]]], extra |-> contextMap] :
            from \in {g \in [canon -> hit] : \A K \in canon : resolved[g[K]] = K}}

normalizeResolved(contextMap, resolved) ==
    LET hit   == DOMAIN resolved
        canon == {resolved[k] : k \in hit}
        extra == [k \in (DOMAIN contextMap) \ hit |-> contextMap[k]]
    IN  {[normalized |-> [K \in canon |-> contextMap[from[K]]], extra |-> extra] :
            from \in {g \in [canon -> hit] : \A K \in canon : resolved[g[K]] = K}}

\* normalizeContext: the (normalized, extra) pairs the call can return
normalizeContext(keyMap, contextMap) ==
    normalizeResolved(contextMap, resolveKeys(keyMap, contextMap))

\* experiment.User: the two identity fields and UserProperties
MkUser(userId, deviceId, props) ==
    [UserId |-> userId, DeviceId |-> deviceId, UserProperties |-> props]

NoUser == MkUser("", "", <<>>)

\* what a configured UserNormalizer may do with the record it is handed
Effects == {"keep", "error", "setUserId", "clearIds"}

NoEffect == {"none"}

NormalizerEffects(cfg) == IF cfg.normalizer THEN Effects ELSE NoEffect

ApplyNormalizer(user, effect) ==
    CASE effect = "setUserId" -> [user EXCEPT !.UserId = "normalized"]
      [] effect = "clearIds"  -> [user EXCEPT !.UserId = "", !.DeviceId = ""]
      [] OTHER                -> user

Field(normalized, K) ==
    IF K \in DOMAIN normalized /\ normalized[K].k = "string"
    THEN normalized[K].s ELSE ""

\* json.Unmarshal into experiment.User fails on a number, on a
\* user_properties that is not a map, and on a map for user_id or device_id
UnmarshalUserFails(normalized) ==
    \/ \E K \in DOMAIN normalized : normalized[K].k = "number"
    \/ KeyUserProperties \in DOMAIN normalized /\ normalized[KeyUserProperties].k # "map"
    \/ \E K \in (DOMAIN normalized) \cap {KeyUserID, KeyDeviceID} : normalized[K].k = "map"

\* user.UserProperties as json.Unmarshal leaves it: the explicit
\* user_properties map of the context, or nil
ExplicitProperties(normalized) ==
    IF KeyUserProperties \in DOMAIN normalized /\ normalized[KeyUserProperties].k = "map"
    THEN normalized[KeyUserProperties].m
    ELSE <<>>

mergePropertiesExplicitWins(explicit, userProperties) ==
    IF DOMAIN explicit = {} THEN userProperties
    ELSE [k \in (DOMAIN explicit) \cup (DOMAIN userProperties) |->
             IF k \in DOMAIN explicit THEN explicit[k] ELSE userProperties[k]]

\* user.UserProperties after the loop that stores every attribute that
\* matched no canonical key into it
mergeProperties(explicit, userProperties) ==
    IF DOMAIN explicit = {} THEN userProperties
    ELSE [k \in (DOMAIN explicit) \cup (DOMAIN userProperties) |->
             IF k \in DOMAIN userProperties THEN userProperties[k] ELSE explicit[k]]

\* the UserNormalizationContext handed to config.UserNormalizer
UserNormalizationContext(evalCtx, user) ==
    [EvaluationContext |-> evalCtx, User |-> user]

\* the record of the call of config.UserNormalizer within an evaluation:
\* whether it was called, whether the context it received is the one the
\* evaluation was called with, the user record it received, and what it did
Normalized(evalCtx, normCtx, effect) ==
    [called |-> TRUE, original |-> normCtx.EvaluationContext = evalCtx,
     User |-> normCtx.User, effect |-> effect]

NotNormalized == [called |-> FALSE, original |-> FALSE, User |-> NoUser, effect |-> "none"]

toAmplitudeUserUnchecked(evalCtx, nc, effect) ==
    LET user0 == MkUser(Field(nc.normalized, KeyUserID),
                        Field(nc.normalized, KeyDeviceID),
                        mergeProperties(ExplicitProperties(nc.normalized), nc.extra))
        user1 == ApplyNormalizer(user0, effect)
        n     == IF effect = "none" THEN NotNormalized
                 ELSE Normalized(evalCtx, UserNormalizationContext(evalCtx, user0), effect)
    IN  IF \E K \in DOMAIN nc.normalized : nc.normalized[K].k = "chan"
        THEN [err |-> "marshal", user |-> NoUser, normalizer |-> NotNormalized]
        ELSE IF UnmarshalUserFails(nc.normalized)
        THEN [err |-> "unmarshal", user |-> NoUser, normalizer |-> NotNormalized]
        ELSE IF effect = "error"
        THEN [err |-> "normalize", user |-> user0, normalizer |-> n]
        ELSE [err |-> "", user |-> user1, normalizer |-> n]

toAmplitudeUserBeforeMapping(evalCtx, nc, effect) ==
    LET user0 == ApplyNormalizer(NoUser, effect)
        user1 == MkUser(IF Field(nc.normalized, KeyUserID) # ""
                        THEN Field(nc.normalized, KeyUserID) ELSE user0.UserId,
                        IF Field(nc.normalized, KeyDeviceID) # ""
                        THEN Field(nc.normalized, KeyDeviceID) ELSE user0.DeviceId,
                        mergeProperties(ExplicitProperties(nc.normalized), nc.extra))
        n     == IF effect = "none" THEN NotNormalized
                 ELSE Normalized(evalCtx, UserNormalizationContext(nc.extra, NoUser), effect)
    IN  IF effect = "error"
        THEN [err |-> "normalize", user |-> NoUser, normalizer |-> n]
        ELSE IF \E K \in DOMAIN nc.normalized : nc.normalized[K].k = "chan"
        THEN [err |-> "marshal", user |-> NoUser, normalizer |-> n]
        ELSE IF UnmarshalUserFails(nc.normalized)
        THEN [err |-> "unmarshal", user |-> NoUser, normalizer |-> n]
        ELSE IF user1.UserId = "" /\ user1.DeviceId = ""
        THEN [err |-> "identity", user |-> user1, normalizer |-> n]
        ELSE [err |-> "", user |-> user1, normalizer |-> n]

toAmplitudeUserIdentityFirst(evalCtx, nc, effect) ==
    LET user0 == MkUser(Field(nc.normalized, KeyUserID),
                        Field(nc.normalized, KeyDeviceID),
                        mergeProperties(ExplicitProperties(nc.normalized), nc.extra))
        user1 == ApplyNormalizer(user0, effect)
        n     == IF effect = "none" THEN NotNormalized
                 ELSE Normalized(evalCtx, UserNormalizationContext(evalCtx, user0), effect)
    IN  IF \E K \in DOMAIN nc.normalized : nc.normalized[K].k = "chan"
        THEN [err |-> "marshal", user |-> NoUser, normalizer |-> NotNormalized]
        ELSE IF UnmarshalUserFails(nc.normalized)
        THEN [err |-> "unmarshal", user |-> NoUser, normalizer |-> NotNormalized]
        ELSE IF user0.UserId = "" /\ user0.DeviceId = ""
        THEN [err |-> "identity", user |-> user0, normalizer |-> NotNormalized]
        ELSE IF effect = "error"
        THEN [err |-> "normalize", user |-> user0, normalizer |-> n]
        ELSE [err |-> "", user |-> user1, normalizer |-> n]

\* Provider.toAmplitudeUser on evalCtx when normalizeContext returned nc
\* and the UserNormalizer, if one is configured, does effect
toAmplitudeUser(evalCtx, nc, effect) ==
    LET user0 == MkUser(Field(nc.normalized, KeyUserID),
                        Field(nc.normalized, KeyDeviceID),
                        mergeProperties(ExplicitProperties(nc.normalized), nc.extra))
        user1 == ApplyNormalizer(user0, effect)
        n     == IF effect = "none" THEN NotNormalized
                 ELSE Normalized(evalCtx, UserNormalizationContext(evalCtx, user0), effect)
    IN  IF \E K \in DOMAIN nc.normalized : nc.normalized[K].k = "chan"
        THEN [err |-> "marshal", user |-> NoUser, normalizer |-> NotNormalized]
        ELSE IF UnmarshalUserFails(nc.normalized)
        THEN [err |-> "unmarshal", user |-> NoUser, normalizer |-> NotNormalized]
        ELSE IF effect = "error"
        THEN [err |-> "normalize", user |-> user0, normalizer |-> n]
        ELSE IF user1.UserId = "" /\ user1.DeviceId = ""
        THEN [err |-> "identity", user |-> user1, normalizer |-> n]
        ELSE [err |-> "", user |-> user1, normalizer |-> n]

----------------------------------------------------------------------------
(* Client adapters                                                         *)

\* a map[string]experiment.Variant: a function from the flags it holds
EmptyVariants == [f \in {} |-> NoVariant]

\* what a call of a client adapter's Evaluate comes to
Returned(variants) == [panic |-> FALSE, err |-> FALSE, variants |-> variants]
Failed == [panic |-> FALSE, err |-> TRUE, variants |-> EmptyVariants]
Panicked == [panic |-> TRUE, err |-> FALSE, variants |-> EmptyVariants]

\* what Cache.Get returns: (value, error), the value nil, a variant map or
\* a value of another type
GetResult(err, kind, variants) == [err |-> err, kind |-> kind, variants |-> variants]

\* json.NewEncoder(hasher).Encode(user) fails on a property it cannot marshal
EncodeFails(user) ==
    \E k \in DOMAIN user.UserProperties : user.UserProperties[k].k = "chan"

clientAdapterRemoteEvaluateNoHit(hasCache, user, get, fetch, setErr) ==
    IF hasCache /\ EncodeFails(user) THEN Failed
    ELSE IF fetch.err THEN Failed
    ELSE IF hasCache /\ setErr THEN Failed
    ELSE Returned(fetch.variants)

\* clientAdapterRemote.Evaluate; get, fetch and setErr are what Cache.Get,
\* FetchV2 and Cache.Set return when they are called
clientAdapterRemoteEvaluate(hasCache, user, get, fetch, setErr) ==
    IF hasCache /\ EncodeFails(user) THEN Failed
    ELSE IF hasCache /\ ~get.err /\ get.kind # "nil"
         THEN IF get.kind = "map" THEN Returned(get.variants) ELSE Panicked
    ELSE IF fetch.err THEN Failed
    ELSE IF hasCache /\ setErr THEN Failed
    ELSE Returned(fetch.variants)

remoteCallsSetAfterFailedFetch(hasCache, user, get, fetch) ==
    IF ~hasCache THEN <<"FetchV2">>
    ELSE IF EncodeFails(user) THEN <<>>
    ELSE IF ~get.err /\ get.kind # "nil" THEN <<"Get">>
    ELSE <<"Get", "FetchV2", "Set">>

\* the calls clientAdapterRemote.Evaluate makes, in their order
remoteCalls(hasCache, user, get, fetch) ==
    IF ~hasCache THEN <<"FetchV2">>
    ELSE IF EncodeFails(user) THEN <<>>
    ELSE IF ~get.err /\ get.kind # "nil" THEN <<"Get">>
    ELSE IF fetch.err THEN <<"Get", "FetchV2">>
    ELSE <<"Get", "FetchV2", "Set">>

\* the cache key of a user: the SHA-256 sum of the user's JSON encoding,
\* here the encoded fields themselves (encoding/json writes the keys of
\* a map in sorted order, so equal users have equal encodings)
cacheKey(user) == <<user.UserId, user.DeviceId, user.UserProperties>>

\* a cache that keeps what is set in a map and whose Get and Set fail
\* when getErr and setErr are set
MkCache(data, getErr, setErr) == [data |-> data, getErr |-> getErr, setErr |-> setErr]

cacheGet(cache, key) ==
    IF cache.getErr THEN GetResult(TRUE, "nil", EmptyVariants)
    ELSE IF key \in DOMAIN cache.data THEN GetResult(FALSE, "map", cache.data[key])
    ELSE GetResult(FALSE, "nil", EmptyVariants)

cacheSet(cache, key, value) ==
    IF cache.setErr THEN cache
    ELSE [cache EXCEPT !.data =
             [k \in (DOMAIN cache.data) \cup {key} |->
                 IF k = key THEN value ELSE cache.data[k]]]

\* Cache.Get returning an error, nil, or a value that is not a variant map
GetsWithoutMap ==
    {GetResult(TRUE, "nil", EmptyVariants), GetResult(FALSE, "nil", EmptyVariants),
     GetResult(FALSE, "other", EmptyVariants)}

\* the results of client.Evaluate for a provider configured by cfg, the
\* remote service / the local evaluator answering from the maps in Maps
ClientOutcomes(cfg, user, Maps) ==
    LET Fetches == {Failed} \cup {Returned(m) : m \in Maps}
    IN  IF cfg.client = "remote"
        THEN IF cfg.cache
             THEN LET Gets == GetsWithoutMap
                              \cup {GetResult(FALSE, "map", m) : m \in Maps}
                  IN  {clientAdapterRemoteEvaluate(TRUE, user, g, f, se) :
                          g \in Gets, f \in Fetches, se \in BOOLEAN}
             ELSE {clientAdapterRemoteEvaluate(FALSE, user,
                          GetResult(FALSE, "nil", EmptyVariants), f, FALSE) :
                          f \in Fetches}
        ELSE Fetches

----------------------------------------------------------------------------
(* evaluateFlag                                                            *)

stateErrorNotReady(st) == ProviderNotReadyCode

stateError(st) ==
    IF st = NotReadyState THEN ProviderNotReadyCode ELSE GeneralCode

\* what evaluateFlag returns, with the stage at which it returned
Flagged(stage, err, isNil, variant) ==
    [stage |-> stage, err |-> err, isNil |-> isNil, variant |-> variant]

\* evaluateFlag from the call of client.Evaluate on (that call returned cr)
evaluateFlagFromCall(flag, cr) ==
    IF cr.err THEN Flagged("call", GeneralCode, TRUE, NoVariant)
    ELSE IF flag \notin DOMAIN cr.variants
    THEN Flagged("lookup", FlagNotFoundCode, TRUE, NoVariant)
    ELSE IF cr.variants[flag].Key = variantKeyOff
    THEN Flagged("off", "", TRUE, NoVariant)
    ELSE Flagged("coerce", "", FALSE, cr.variants[flag])


evaluateFlagKeepOff(st, flag, u, cr) ==
    IF st # ReadyState THEN Flagged("readiness", stateError(st), TRUE, NoVariant)
    ELSE IF u.err # "" THEN Flagged("projection", InvalidContextCode, TRUE, NoVariant)
    ELSE IF cr.err THEN Flagged("call", GeneralCode, TRUE, NoVariant)
    ELSE IF flag \notin DOMAIN cr.variants
    THEN Flagged("lookup", FlagNotFoundCode, TRUE, NoVariant)
    ELSE Flagged("coerce", "", FALSE, cr.variants[flag])

\* Provider.evaluateFlag in provider state st, when toAmplitudeUser returns
\* u and client.Evaluate returns cr (each is looked at only if called)
evaluateFlag(st, flag, u, cr) ==
    IF st # ReadyState THEN Flagged("readiness", stateError(st), TRUE, NoVariant)
    ELSE IF u.err # "" THEN Flagged("projection", InvalidContextCode, TRUE, NoVariant)
    ELSE evaluateFlagFromCall(flag, cr)

----------------------------------------------------------------------------
(* The provider                                                            *)

\* Config as NewFromConfig keeps it: which client adapter, whether a
\* RemoteEvaluationCache and a UserNormalizer are set, and KeyMap
MkConfig(client, cache, normalizer, keyMap) ==
    [client |-> client, cache |-> cache, normalizer |-> normalizer, KeyMap |-> keyMap]

\* KeyMap as the options leave it: unset, or set with WithKeyMap
OptionKeyMaps == {NilKeyMap, SetKeyMap}

Configs ==
    {MkConfig("local", FALSE, n, k) : n \in BOOLEAN, k \in OptionKeyMaps}
    \cup {MkConfig("remote", c, n, k) : c \in BOOLEAN, n \in BOOLEAN, k \in OptionKeyMaps}

NoDetail == Detail(NilVal, "", "", "", NoMetadata)

NoProjection == [err |-> "", user |-> NoUser, normalizer |-> NotNormalized]

\* client.Evaluate was not called
NotCalled == [panic |-> FALSE, err |-> FALSE, variants |-> EmptyVariants]

ClientEvaluateCallsNoFlag(called, user, flag) ==
    IF called THEN <<[user |-> user, flagKeys |-> <<>>]>> ELSE <<>>

\* the calls of p.client.Evaluate evaluateFlag makes, each with its user
\* and its flag keys: one, with the flag under evaluation, when
\* evaluateFlag gets as far as the call
ClientEvaluateCalls(called, user, flag) ==
    IF called THEN <<[user |-> user, flagKeys |-> <<flag>>]>> ELSE <<>>

\* the record of an evaluation call: its arguments, the provider state it
\* ran in, what toAmplitudeUser returned (u), whether client.Evaluate was
\* called and what it returned (cr), the variant found for the flag, and
\* the resolution detail returned (none when the call panicked)
Call(method, flag, defaultValue, u, called, cr) ==
    LET ef    == evaluateFlag(state, flag, u, cr)
        found == called /\ ~cr.panic /\ ~cr.err /\ flag \in DOMAIN cr.variants
    IN  [method |-> method, flag |-> flag, defaultValue |-> defaultValue,
         state |-> state, userErr |-> u.err, user |-> u.user,
         normalizer |-> u.normalizer,
         clientCalls |-> ClientEvaluateCalls(called, u.user, flag),
         called |-> called, callErr |-> cr.err, found |-> found,
         variant |-> IF found THEN cr.variants[flag] ELSE NoVariant,
         panicked |-> cr.panic,
         stage |-> IF cr.panic THEN "call" ELSE ef.stage,
         detail |-> IF cr.panic THEN NoDetail ELSE Coerce(method, ef, defaultValue)]

NoCall ==
    [method |-> "none", flag |-> "", defaultValue |-> NilVal,
     state |-> NotReadyState, userErr |-> "", user |-> NoUser,
     normalizer |-> NotNormalized, clientCalls |-> <<>>,
     called |-> FALSE, callErr |-> FALSE, found |-> FALSE, variant |-> NoVariant,
     panicked |-> FALSE, stage |-> "none", detail |-> NoDetail]

\* the "$exposure" event of a flag, the user and the flag's variant
ExposureEvent(flag, user, variant) ==
    [EventType |-> "$exposure", UserID |-> user.UserId,
     EventProperties |-> [flag_key |-> flag, variant |-> variant.Key,
                          metadata |-> "nil"]]

ExposuresAfterOffCheck(client, call) ==
    IF client /\ call.found /\ call.variant.Key # variantKeyOff
    THEN <<ExposureEvent(call.flag, call.user, call.variant)>>
    ELSE <<>>

\* the events evaluateFlag hands to analyticsClient.Track in the
\* evaluation recorded as call, client telling whether
\* p.analyticsClient is set
Exposures(client, call) ==
    IF client /\ call.found
    THEN <<ExposureEvent(call.flag, call.user, call.variant)>>
    ELSE <<>>

\* the evaluation that ends in this step has sent its events
Exposed == tracking' = [tracking EXCEPT !.sent = Exposures(tracking.client, last')]

\* what one call of method records, its arguments drawn from Flgs, Dflts
\* and Ctxs, the client answering from Maps, the key map being as
\* getKeyMap finds it
EvaluationRecord(method, Flgs, Dflts, Ctxs, Maps) ==
    \E flag \in Flgs, d \in Dflts, ctx \in Ctxs :
       \/ /\ state # ReadyState
          /\ last' = Call(method, flag, d, NoProjection, FALSE, NotCalled)
       \/ /\ state = ReadyState
          /\ \E nc \in normalizeContext(config.KeyMap, ctx),
                effect \in NormalizerEffects(config) :
               LET u == toAmplitudeUser(ctx, nc, effect)
               IN  \/ /\ u.err # ""
                      /\ last' = Call(method, flag, d, u, FALSE, NotCalled)
                   \/ /\ u.err = ""
                      /\ \E cr \in ClientOutcomes(config, u.user, Maps) :
                           last' = Call(method, flag, d, u, TRUE, cr)

EvaluationMovesState(method, Flgs, Dflts, Ctxs, Maps) ==
    /\ life.provider
    /\ EvaluationRecord(method, Flgs, Dflts, Ctxs, Maps)
    /\ config' = IF state = ReadyState
                 THEN [config EXCEPT !.KeyMap = keyMapAfterGet(config.KeyMap)]
                 ELSE config
    /\ Exposed
    /\ state' = IF last'.callErr THEN ErrorState ELSE state
    /\ UNCHANGED <<norm, entry, remote, life, running, projection>>

\* one call of method run from its first step to its last with no other
\* call in between; getKeyMap leaves the map it built in config
Evaluation(method, Flgs, Dflts, Ctxs, Maps) ==
    /\ life.provider
    /\ EvaluationRecord(method, Flgs, Dflts, Ctxs, Maps)
    /\ config' = IF state = ReadyState
                 THEN [config EXCEPT !.KeyMap = keyMapAfterGet(config.KeyMap)]
                 ELSE config
    /\ Exposed
    /\ UNCHANGED <<state, norm, entry, remote, life, running, projection>>

\* the goroutines that call evaluation methods on the one provider
Goroutines == 1..2

\* where a goroutine is in its call: not in one ("idle"), about to test
\* c.KeyMap == nil in getKeyMap ("getKeyMap"), about to assign
\* c.KeyMap = DefaultKeyMap() ("assign"), about to range over the context
\* with the key map ("normalize"); whether it has assigned c.KeyMap, and
\* whether another goroutine was in a call when it did
Running(pc, wrote, overlapped) ==
    [pc |-> pc, wrote |-> wrote, overlapped |-> overlapped]

NoneRunning == [g \in Goroutines |-> Running("idle", FALSE, FALSE)]

\* the record of a call of normalizeContext: its argument, the key map it
\* read, the two maps it returned, whether the call repeated the argument
\* of the call before it, and what that call returned
Normalization(keyMap, contextMap, nc, again, before) ==
    [called |-> TRUE, KeyMap |-> keyMap, contextMap |-> contextMap,
     normalized |-> nc.normalized, extra |-> nc.extra,
     again |-> again, before |-> before]

NoNormalization ==
    [called |-> FALSE, KeyMap |-> NilKeyMap, contextMap |-> <<>>,
     normalized |-> <<>>, extra |-> <<>>, again |-> FALSE,
     before |-> [normalized |-> <<>>, extra |-> <<>>]]

\* Provider.normalizeContext on a map of Ctxs
NormalizeContext(Ctxs) ==
    /\ \E contextMap \in Ctxs :
         \E nc \in normalizeContext(config.KeyMap, contextMap) :
             norm' = Normalization(config.KeyMap, contextMap, nc, FALSE, nc)
    /\ config' = [config EXCEPT !.KeyMap = keyMapAfterGet(config.KeyMap)]
    /\ UNCHANGED <<state, last, entry, remote, life, running, tracking, projection>>

\* Provider.normalizeContext on the map of the call before
NormalizeContextAgain ==
    /\ norm.called
    /\ \E nc \in normalizeContext(config.KeyMap, norm.contextMap) :
         norm' = Normalization(config.KeyMap, norm.contextMap, nc, TRUE,
                               [normalized |-> norm.normalized, extra |-> norm.extra])
    /\ config' = [config EXCEPT !.KeyMap = keyMapAfterGet(config.KeyMap)]
    /\ UNCHANGED <<state, last, entry, remote, life, running, tracking, projection>>

\* the record of a lookup in DefaultKeyMap(): the canonical key and the
\* permutation of it that was looked up (a lookup of the targeting key
\* has key user_id), and what the lookup returned
Entry(key, perm) ==
    [looked |-> TRUE, key |-> key, perm |-> perm, found |-> lookup(DefaultKeyMap, perm)]

NoEntry ==
    [looked |-> FALSE, key |-> <<>>, perm |-> <<>>,
     found |-> [ok |-> FALSE, resolvedKey |-> <<>>]]

\* a lookup in DefaultKeyMap() of a permutation of a key of allKeys
LookupPermutation ==
    /\ \E i \in DOMAIN allKeys :
         \E j \in DOMAIN makePermutations(allKeys[i]) :
             entry' = Entry(allKeys[i], makePermutations(allKeys[i])[j])
    /\ UNCHANGED <<state, config, last, norm, remote, life, running, tracking, projection>>

\* a lookup in DefaultKeyMap() of the targeting key
LookupTargetingKey ==
    /\ entry' = Entry(KeyUserID, TargetingKey)
    /\ UNCHANGED <<state, config, last, norm, remote, life, running, tracking, projection>>

\* a clientAdapterRemote: whether it has a cache, the cache, the first
\* variants Evaluate returned for each cache key, and the last call of
\* Evaluate: the user, what FetchV2 returns when called, whether Evaluate
\* had returned variants for the user before, the calls made, the result
MkRemote(hasCache, cache, first, call) ==
    [hasCache |-> hasCache, cache |-> cache, first |-> first, call |-> call]

NoRemoteCall ==
    [made |-> FALSE, user |-> NoUser, fetch |-> Failed, known |-> FALSE,
     calls |-> <<>>, result |-> Failed]

NoRemote == MkRemote(FALSE, MkCache(<<>>, FALSE, FALSE), <<>>, NoRemoteCall)

\* clientAdapterRemote.Evaluate for a user of Users, FetchV2 answering
\* with an outcome of Fetches
RemoteEvaluate(Users, Fetches) ==
    /\ \E user \in Users, fetch \in Fetches :
         LET key    == cacheKey(user)
             get    == IF remote.hasCache THEN cacheGet(remote.cache, key)
                       ELSE GetResult(FALSE, "nil", EmptyVariants)
             result == clientAdapterRemoteEvaluate(remote.hasCache, user, get, fetch,
                                                   remote.cache.setErr)
             calls  == remoteCalls(remote.hasCache, user, get, fetch)
             sets   == \E i \in DOMAIN calls : calls[i] = "Set"
             ok     == ~result.err /\ ~result.panic
         IN  remote' =
                 [remote EXCEPT
                    !.cache = IF sets THEN cacheSet(remote.cache, key, fetch.variants)
                              ELSE remote.cache,
                    !.first = IF ok /\ key \notin DOMAIN remote.first
                              THEN [k \in (DOMAIN remote.first) \cup {key} |->
                                       IF k = key THEN result.variants ELSE remote.first[k]]
                              ELSE remote.first,
                    !.call  = [made |-> TRUE, user |-> user, fetch |-> fetch,
                               known |-> key \in DOMAIN remote.first,
                               calls |-> calls, result |-> result]]
    /\ UNCHANGED <<state, config, last, norm, entry, life, running, tracking, projection>>

\* the Config handed to NewFromConfig: DeploymentKey, whether LocalConfig,
\* RemoteConfig, RemoteEvaluationCache, UserNormalizer, testClientAdapter
\* and AnalyticsConfig are set, KeyMap as the options leave it, and
\* whether LocalConfig.AssignmentConfig is populated
MkInput(deploymentKey, localConfig, remoteConfig, cache, normalizer, keyMap, testClientAdapter, analyticsConfig, assignmentConfig) ==
    [DeploymentKey |-> deploymentKey, LocalConfig |-> localConfig,
     RemoteConfig |-> remoteConfig, RemoteEvaluationCache |-> cache,
     UserNormalizer |-> normalizer, KeyMap |-> keyMap,
     testClientAdapter |-> testClientAdapter,
     AnalyticsConfig |-> analyticsConfig, AssignmentConfig |-> assignmentConfig]

NoInput == MkInput("", FALSE, FALSE, FALSE, FALSE, NilKeyMap, FALSE, FALSE, FALSE)

ErrNoDeploymentKey == "you must provide a deployment key"
ErrBothConfigs == "you cannot configure the provider to use both local and remote evaluation at the same time"

\* no provider was returned
NilProvider == "nil"
NoConfig == MkConfig("none", FALSE, FALSE, NilKeyMap)

\* what NewFromConfig returns: the error, whether a provider came with it,
\* and the provider's state and config
Constructed(err, provider, st, cfg) ==
    [err |-> err, provider |-> provider, state |-> st, config |-> cfg]

NewFromConfigAnyClient(c) ==
    IF c.DeploymentKey = ""
    THEN Constructed(ErrNoDeploymentKey, FALSE, NilProvider, NoConfig)
    ELSE Constructed("", TRUE, NotReadyState,
             MkConfig(IF c.testClientAdapter THEN "test"
                      ELSE IF c.RemoteConfig THEN "remote" ELSE "local",
                      c.RemoteEvaluationCache, c.UserNormalizer, c.KeyMap))

NewFromConfig(c) ==
    IF c.DeploymentKey = ""
    THEN Constructed(ErrNoDeploymentKey, FALSE, NilProvider, NoConfig)
    ELSE IF c.testClientAdapter
    THEN Constructed("", TRUE, NotReadyState,
             MkConfig("test", c.RemoteEvaluationCache, c.UserNormalizer, c.KeyMap))
    ELSE IF c.LocalConfig /\ c.RemoteConfig
    THEN Constructed(ErrBothConfigs, FALSE, NilProvider, NoConfig)
    ELSE IF c.RemoteConfig
    THEN Constructed("", TRUE, NotReadyState,
             MkConfig("remote", c.RemoteEvaluationCache, c.UserNormalizer, c.KeyMap))
    ELSE Constructed("", TRUE, NotReadyState,
             MkConfig("local", c.RemoteEvaluationCache, c.UserNormalizer, c.KeyMap))

errMockStart == "mock start error"
ErrLocalStart == "local client start error"

\* what client.Start returns: nil from the remote adapter, nil or the
\* local client's error from the local adapter, nil or whatever StartFunc
\* returns from the injected adapter
RemoteStartResults == {""}
LocalStartResults == {"", ErrLocalStart}
MockStartResults == {"", errMockStart}

StartResults(client) ==
    IF client = "remote" THEN RemoteStartResults
    ELSE IF client = "local" THEN LocalStartResults
    ELSE MockStartResults

InitWrapsError(startErr) ==
    [state |-> IF startErr # "" THEN ErrorState ELSE ReadyState,
     err |-> IF startErr # "" THEN "init failed" ELSE ""]

\* Provider.Init when client.Start returns startErr: the state it leaves
\* and the error it returns
ProviderInitResult(startErr) ==
    [state |-> IF startErr # "" THEN ErrorState ELSE ReadyState,
     err |-> startErr]

\* the record of the last of NewFromConfig, Init and Shutdown: the Config
\* NewFromConfig was given and the error it returned, whether a provider
\* exists, the state the operation found, what client.Start returned and
\* what the operation returned
Life(op, input, newErr, provider, before, startErr, err) ==
    [op |-> op, input |-> input, newErr |-> newErr, provider |-> provider,
     before |-> before, startErr |-> startErr, err |-> err]

NoLife == Life("none", NoInput, "", FALSE, NilProvider, "", "")

\* a provider exists, nothing is recorded of how it was constructed
ProviderExists == Life("none", NoInput, "", TRUE, NilProvider, "", "")

\* NewFromConfig reaches the switch on the two configurations and takes
\* its default (local) case
TakesLocalCase(c) ==
    /\ c.DeploymentKey # ""
    /\ ~c.testClientAdapter
    /\ ~c.RemoteConfig

\* AssignmentConfig values: none, the one the caller populated, one built
\* from AnalyticsConfig
NilAssignment == "nil"
GivenAssignment == "LocalConfig.AssignmentConfig"
BuiltAssignment == "AssignmentConfig{Config: *config.AnalyticsConfig}"

AssignmentOf(populated) == IF populated THEN GivenAssignment ELSE NilAssignment

\* the values NewFromConfig works on in its local case: provider.config,
\* the copy of the parameter made when the Provider was allocated; the
\* parameter config after the if / else if; localCfg, the copy of
\* *config.LocalConfig the first getLocalConfig() returned, after the
\* if / else if; and the copy the second getLocalConfig() returns, which
\* newClientAdapterLocal receives
LocalCase(c) ==
    LET enableAnalytics == ~c.AnalyticsConfig /\ c.AssignmentConfig
        buildAssignment == c.AnalyticsConfig /\ ~c.AssignmentConfig
    IN  [providerConfigAnalytics |-> c.AnalyticsConfig,
         parameterAnalytics |-> c.AnalyticsConfig \/ enableAnalytics,
         localCfgAssignment |-> IF buildAssignment THEN BuiltAssignment
                                ELSE AssignmentOf(c.AssignmentConfig),
         clientAssignment |-> AssignmentOf(c.AssignmentConfig)]

\* whether NewFromConfig creates provider.analyticsClient: it tests
\* provider.config.AnalyticsConfig, after the switch
NewAnalyticsClient(c) ==
    IF NewFromConfig(c).err # "" \/ c.testClientAdapter THEN FALSE
    ELSE IF TakesLocalCase(c) THEN LocalCase(c).providerConfigAnalytics
    ELSE c.AnalyticsConfig

\* the AssignmentConfig of the local.Config the local client is created with
NewClientAssignment(c) ==
    IF NewFromConfig(c).err = "" /\ TakesLocalCase(c)
    THEN LocalCase(c).clientAssignment
    ELSE NilAssignment

\* an analytics.Event: EventType, UserID, Revenue (0 when not set) and
\* EventProperties
MkEvent(eventType, userID, revenue, eventProperties) ==
    [EventType |-> eventType, UserID |-> userID, Revenue |-> revenue,
     EventProperties |-> eventProperties]

NoEvent == MkEvent("", "", 0, <<>>)

\* the numbers the numeric attributes of the model hold
AttributeNumbers == {42}

AttributeNumber == CHOOSE n \in AttributeNumbers : TRUE

\* json.Marshal of a normalized map fails on a value json cannot encode
MarshalFails(normalized) ==
    \E K \in DOMAIN normalized : normalized[K].k = "chan"

\* json.Unmarshal into the event fails on a user_id that is not a string
\* or a revenue that is not a number
UnmarshalEventFails(normalized) ==
    \/ KeyUserID \in DOMAIN normalized /\ normalized[KeyUserID].k # "string"
    \/ KeyRevenue \in DOMAIN normalized /\ normalized[KeyRevenue].k # "number"

\* json.Unmarshal of a normalized map into event: the fields the map names
\* are assigned, the others are left as they are
UnmarshalEvent(event, normalized) ==
    [event EXCEPT
        !.UserID = IF KeyUserID \in DOMAIN normalized
                   THEN normalized[KeyUserID].s ELSE @,
        !.Revenue = IF KeyRevenue \in DOMAIN normalized
                    THEN AttributeNumber ELSE @]

\* an of.EvaluationContext and an of.TrackingEventDetails
MkEvaluationContext(targetingKey, attributes) ==
    [TargetingKey |-> targetingKey, Attributes |-> attributes]

MkDetails(value, attributes) == [Value |-> value, Attributes |-> attributes]

\* evalCtx.Attributes() with the targeting key, when there is one, stored
\* under "user_id"
EventAttributes(evalCtx) ==
    IF evalCtx.TargetingKey = "" THEN evalCtx.Attributes
    ELSE [k \in (DOMAIN evalCtx.Attributes) \cup {KeyUserID} |->
             IF k = KeyUserID THEN CtxString(evalCtx.TargetingKey)
             ELSE evalCtx.Attributes[k]]

\* what toAmplitudeEvent returns
Built(err, event) == [err |-> err, event |-> event]

toAmplitudeEventKeepRevenue(trackingEventName, evalCtx, details, eventNc, detailsNc, effect) ==
    IF MarshalFails(eventNc.normalized) THEN Built("marshal event map", NoEvent)
    ELSE IF UnmarshalEventFails(eventNc.normalized)
    THEN Built("unmarshal event map", NoEvent)
    ELSE IF MarshalFails(detailsNc.normalized)
    THEN Built("marshal details map", UnmarshalEvent(NoEvent, eventNc.normalized))
    ELSE IF UnmarshalEventFails(detailsNc.normalized)
    THEN Built("unmarshal event details map", UnmarshalEvent(NoEvent, eventNc.normalized))
    ELSE LET decoded == UnmarshalEvent(UnmarshalEvent(NoEvent, eventNc.normalized),
                                       detailsNc.normalized)
             event   == [decoded EXCEPT !.EventProperties = detailsNc.extra,
                                        !.UserID = IF @ # "" THEN @ ELSE evalCtx.TargetingKey,
                                        !.EventType = trackingEventName,
                                        !.Revenue = IF @ # 0 THEN @ ELSE details.Value]
         IN  IF effect = "error" THEN Built("normalize event", event)
             ELSE Built("", event)

\* Provider.toAmplitudeEvent when the two calls of normalizeContext
\* returned eventNc and detailsNc and the EventNormalizer, if one is
\* configured, does effect
toAmplitudeEvent(trackingEventName, evalCtx, details, eventNc, detailsNc, effect) ==
    IF MarshalFails(eventNc.normalized) THEN Built("marshal event map", NoEvent)
    ELSE IF UnmarshalEventFails(eventNc.normalized)
    THEN Built("unmarshal event map", NoEvent)
    ELSE IF MarshalFails(detailsNc.normalized)
    THEN Built("marshal details map", UnmarshalEvent(NoEvent, eventNc.normalized))
    ELSE IF UnmarshalEventFails(detailsNc.normalized)
    THEN Built("unmarshal event details map", UnmarshalEvent(NoEvent, eventNc.normalized))
    ELSE LET decoded == UnmarshalEvent(UnmarshalEvent(NoEvent, eventNc.normalized),
                                       detailsNc.normalized)
             event   == [decoded EXCEPT !.EventProperties = detailsNc.extra,
                                        !.UserID = evalCtx.TargetingKey,
                                        !.EventType = trackingEventName,
                                        !.Revenue = IF details.Value # 0
                                                    THEN details.Value ELSE @]
         IN  IF effect = "error" THEN Built("normalize event", event)
             ELSE Built("", event)

\* the record of a call of Track: its arguments, whether toAmplitudeEvent
\* was called and what it returned
Tracked(trackingEventName, evalCtx, details, called, built) ==
    [trackingEventName |-> trackingEventName, evalCtx |-> evalCtx,
     details |-> details, called |-> called, err |-> built.err,
     event |-> built.event]

NoTrack ==
    Tracked("", MkEvaluationContext("", <<>>), MkDetails(0, <<>>), FALSE,
            Built("", NoEvent))

\* provider.analyticsClient is set or nil, the AssignmentConfig the local
\* client was created with, the events the last call handed to
\* analyticsClient.Track, and the last call of Provider.Track
Tracking(client, assignment, sent) ==
    [client |-> client, assignment |-> assignment, sent |-> sent, track |-> NoTrack]

NoTracking == Tracking(FALSE, NilAssignment, <<>>)

\* the record of a call of toAmplitudeUser: the key map getKeyMap returned,
\* the context, and the error and the user the call returned
Projected(keyMap, evalCtx, u) ==
    [called |-> TRUE, KeyMap |-> keyMap, evalCtx |-> evalCtx,
     err |-> u.err, user |-> u.user]

NoProjected ==
    [called |-> FALSE, KeyMap |-> NilKeyMap, evalCtx |-> <<>>,
     err |-> "", user |-> NoUser]

\* Provider.toAmplitudeUser on a context of Ctxs
ToAmplitudeUser(Ctxs) ==
    /\ life.provider
    /\ \E evalCtx \in Ctxs :
         \E nc \in normalizeContext(config.KeyMap, evalCtx),
            effect \in NormalizerEffects(config) :
             projection' = Projected(config.KeyMap, evalCtx,
                                     toAmplitudeUser(evalCtx, nc, effect))
    /\ config' = [config EXCEPT !.KeyMap = keyMapAfterGet(config.KeyMap)]
    /\ UNCHANGED <<state, last, norm, entry, remote, life, running, tracking>>

\* Provider.Track on a name, a context and details drawn from Names,
\* EvalCtxs and Details, the EventNormalizer doing one of Effs
Track(Names, EvalCtxs, Details, Effs) ==
    /\ life.provider
    /\ \E name \in Names, evalCtx \in EvalCtxs, details \in Details :
         \/ /\ ~tracking.client
            /\ tracking' = [tracking EXCEPT
                                !.sent = <<>>,
                                !.track = Tracked(name, evalCtx, details, FALSE,
                                                  Built("", NoEvent))]
            /\ UNCHANGED config
         \/ /\ tracking.client
            /\ config' = [config EXCEPT !.KeyMap = keyMapAfterGet(config.KeyMap)]
            /\ \E eventNc \in normalizeContext(config.KeyMap, EventAttributes(evalCtx)),
                  detailsNc \in normalizeContext(config.KeyMap, details.Attributes),
                  effect \in Effs :
                 LET b == toAmplitudeEvent(name, evalCtx, details, eventNc, detailsNc, effect)
                 IN  tracking' = [tracking EXCEPT
                                     !.sent = IF b.err = "" THEN <<b.event>> ELSE <<>>,
                                     !.track = Tracked(name, evalCtx, details, TRUE, b)]
    /\ UNCHANGED <<state, last, norm, entry, remote, life, running, projection>>

\* NewFromConfig on one of Inputs, while no provider exists
NewProvider(Inputs) ==
    /\ ~life.provider
    /\ \E c \in Inputs :
         LET n == NewFromConfig(c)
         IN  /\ state' = n.state
             /\ config' = n.config
             /\ life' = Life("NewFromConfig", c, n.err, n.provider, state, "", n.err)
             /\ tracking' = Tracking(NewAnalyticsClient(c), NewClientAssignment(c), <<>>)
    /\ UNCHANGED <<last, norm, entry, remote, running, projection>>

ProviderInit ==
    /\ life.provider
    /\ \E startErr \in StartResults(config.client) :
         LET r == ProviderInitResult(startErr)
         IN  /\ state' = r.state
             /\ life' = [life EXCEPT !.op = "Init", !.before = state,
                                     !.startErr = startErr, !.err = r.err]
    /\ UNCHANGED <<config, last, norm, entry, remote, running, tracking, projection>>

Shutdown ==
    /\ life.provider
    /\ state' = NotReadyState
    /\ life' = [life EXCEPT !.op = "Shutdown", !.before = state,
                            !.startErr = "", !.err = ""]
    /\ UNCHANGED <<config, last, norm, entry, remote, running, tracking, projection>>

----------------------------------------------------------------------------
(* Inputs                                                                  *)

Flags == {"test-flag"}

\* two defaults for each method
BooleanDefaults == {BoolVal(FALSE), BoolVal(TRUE)}
StringDefaults == {StringVal(<<"d">>), StringVal(<<>>)}
FloatDefaults == {FloatVal(15, 1), FloatVal(0, 0)}
IntDefaults == {IntVal(100), IntVal(0)}
ObjectDefaults == {ObjectVal("default"), NilVal}

\* one default for each method
BooleanDefault == {BoolVal(FALSE)}
StringDefault == {StringVal(<<"d">>)}
FloatDefault == {FloatVal(15, 1)}
IntDefault == {IntVal(100)}
ObjectDefault == {ObjectVal("default")}

Alphabet == {"7", "-", "."}

RECURSIVE StringsOfLen(_)
StringsOfLen(n) ==
    IF n = 0 THEN {<<>>}
    ELSE {Append(s, a) : s \in StringsOfLen(n - 1), a \in Alphabet}

Strings == UNION {StringsOfLen(k) : k \in 0..MaxStrLen}

\* every payload shape: absent, booleans, floats (-1.5, 2.99, 42), a native
\* int64, an array, an object, and every string as string and json.Number
Payloads ==
    {NilVal, BoolVal(TRUE), BoolVal(FALSE), FloatVal(-15, 1), FloatVal(299, 2),
     FloatVal(42, 0), IntVal(9), ArrayVal("a"), ObjectVal("o")}
    \cup {StringVal(s) : s \in Strings} \cup {NumberVal(s) : s \in Strings}

VariantKeys == {variantKeyOff, "on"}

MapsOf(Vs) == {EmptyVariants} \cup {[f \in {"test-flag"} |-> v] : v \in Vs}

PayloadMaps == MapsOf({makeVariant(k, "value", p) : k \in VariantKeys, p \in Payloads})

FewMaps ==
    MapsOf({makeVariant(variantKeyOff, "", NilVal), makeVariant("on", "value", NilVal),
            makeVariant("on", "value", BoolVal(TRUE)),
            makeVariant("on", "value", StringVal(<<"7">>))})

OneMap == MapsOf({makeVariant("on", "value", BoolVal(TRUE))})

\* every context of at most MaxCtxKeys attributes
AllContexts ==
    UNION {[D -> CtxVals] : D \in {E \in SUBSET CtxKeys : Cardinality(E) <= MaxCtxKeys}}

\* the values of the maps normalizeContext is called on
NormVals == {CtxString("d1"), CtxString("US")}

\* every map of at most MaxCtxKeys attributes for normalizeContext
NormContexts ==
    UNION {[D -> NormVals] : D \in {E \in SUBSET NormKeys : Cardinality(E) <= MaxCtxKeys}}

\* the users of clientAdapterRemote.Evaluate: two users, and one whose
\* properties cannot be encoded
RemoteUsers ==
    {MkUser("u1", "", <<>>), MkUser("u2", "", <<>>),
     MkUser("u1", "", [k \in {CustomProp} |-> CtxChan])}

\* what FetchV2 returns
RemoteFetches == {Failed} \cup {Returned(m) : m \in FewMaps}

\* the remote adapters: without a cache, and with a cache whose Get and
\* Set fail or not
Remotes ==
    {NoRemote}
    \cup {MkRemote(TRUE, MkCache(<<>>, g, s), <<>>, NoRemoteCall) : g \in BOOLEAN, s \in BOOLEAN}

\* the Configs NewFromConfig is called on
ConfigInputs ==
    {i \in {MkInput(d, l, r, c, FALSE, k, t, a, g) :
                d \in {"", "test-key"}, l \in BOOLEAN, r \in BOOLEAN, c \in BOOLEAN,
                k \in OptionKeyMaps, t \in BOOLEAN, a \in BOOLEAN, g \in BOOLEAN} :
        i.AssignmentConfig => i.LocalConfig}

\* the arguments of Provider.Track: one event name, contexts with and
\* without targeting key, details with and without value, attributes that
\* are strings or numbers
TrackingNames == {"purchase-event"}

EventAttributeVals == {CtxString("u2"), CtxNumber}

EventContexts ==
    {MkEvaluationContext(t, a) :
        t \in {"", "u1"},
        a \in UNION {[D -> EventAttributeVals] : D \in SUBSET {KeyUserID}}}

EventDetails ==
    {MkDetails(v, a) :
        v \in {0, 100},
        a \in UNION {[D -> EventAttributeVals] : D \in SUBSET EventAttributeNames}}

\* the EventNormalizer is not configured or changes nothing, or fails
EventNormalizerEffects == {"none", "error"}

IdentityContext == [k \in {TargetingKey} |-> CtxString("u1")]

IdentityContexts == {IdentityContext}

\* contexts of each kind the projection tells apart
Contexts ==
    {[k \in {} |-> CtxChan],
     IdentityContext,
     [k \in {TargetingKey} |-> CtxString("")],
     [k \in {KeyDeviceID} |-> CtxString("u1")],
     [k \in {CustomProp} |-> CtxString("u1")],
     [k \in {TargetingKey} |-> CtxChan],
     [k \in {KeyUserID} |-> CtxNumber],
     [k \in {TargetingKey, KeyUserID} |-> IF k = KeyUserID THEN CtxString("") ELSE CtxString("u1")],
     [k \in {TargetingKey, CustomProp} |-> IF k = CustomProp THEN CtxChan ELSE CtxString("u1")]}

----------------------------------------------------------------------------
(* The provider with its lifecycle, under every configuration              *)

BooleanEvaluation == Evaluation("Boolean", Flags, BooleanDefault, Contexts, FewMaps)
StringEvaluation == Evaluation("String", Flags, StringDefault, Contexts, FewMaps)
FloatEvaluation == Evaluation("Float", Flags, FloatDefault, Contexts, FewMaps)
IntEvaluation == Evaluation("Int", Flags, IntDefault, Contexts, FewMaps)
ObjectEvaluation == Evaluation("Object", Flags, ObjectDefault, Contexts, FewMaps)

Init ==
    /\ state = NotReadyState
    /\ config \in Configs
    /\ last = NoCall
    /\ norm = NoNormalization
    /\ entry = NoEntry
    /\ remote = NoRemote
    /\ life = ProviderExists
    /\ running = NoneRunning
    /\ tracking = NoTracking
    /\ projection = NoProjected

Next ==
    \/ ProviderInit
    \/ Shutdown
    \/ BooleanEvaluation
    \/ StringEvaluation
    \/ FloatEvaluation
    \/ IntEvaluation
    \/ ObjectEvaluation

Spec == Init /\ [][Next]_vars

(* A ready provider on the local client, the variants of every payload     *)

BooleanEvaluationP == Evaluation("Boolean", Flags, BooleanDefaults, IdentityContexts, PayloadMaps)
StringEvaluationP == Evaluation("String", Flags, StringDefaults, IdentityContexts, PayloadMaps)
FloatEvaluationP == Evaluation("Float", Flags, FloatDefaults, IdentityContexts, PayloadMaps)
IntEvaluationP == Evaluation("Int", Flags, IntDefaults, IdentityContexts, PayloadMaps)
ObjectEvaluationP == Evaluation("Object", Flags, ObjectDefaults, IdentityContexts, PayloadMaps)

InitPayloads ==
    /\ state = ReadyState
    /\ config = MkConfig("local", FALSE, FALSE, NilKeyMap)
    /\ last = NoCall
    /\ norm = NoNormalization
    /\ entry = NoEntry
    /\ remote = NoRemote
    /\ life = ProviderExists
    /\ running = NoneRunning
    /\ tracking = NoTracking
    /\ projection = NoProjected

NextPayloads ==
    \/ BooleanEvaluationP
    \/ StringEvaluationP
    \/ FloatEvaluationP
    \/ IntEvaluationP
    \/ ObjectEvaluationP

SpecPayloads == InitPayloads /\ [][NextPayloads]_vars

(* A ready provider on the local client, every context                     *)

BooleanEvaluationC == Evaluation("Boolean", Flags, BooleanDefault, AllContexts, OneMap)
StringEvaluationC == Evaluation("String", Flags, StringDefault, AllContexts, OneMap)
FloatEvaluationC == Evaluation("Float", Flags, FloatDefault, AllContexts, OneMap)
IntEvaluationC == Evaluation("Int", Flags, IntDefault, AllContexts, OneMap)
ObjectEvaluationC == Evaluation("Object", Flags, ObjectDefault, AllContexts, OneMap)

InitContexts ==
    /\ state = ReadyState
    /\ config \in {MkConfig("local", FALSE, n, NilKeyMap) : n \in BOOLEAN}
    /\ last = NoCall
    /\ norm = NoNormalization
    /\ entry = NoEntry
    /\ remote = NoRemote
    /\ life = ProviderExists
    /\ running = NoneRunning
    /\ tracking = NoTracking
    /\ projection = NoProjected

NextContexts ==
    \/ BooleanEvaluationC
    \/ StringEvaluationC
    \/ FloatEvaluationC
    \/ IntEvaluationC
    \/ ObjectEvaluationC

SpecContexts == InitContexts /\ [][NextContexts]_vars

(* Context normalization on its own, under each key map                    *)

NormalizeContextN == NormalizeContext(NormContexts)

InitNormalize ==
    /\ state = NotReadyState
    /\ config \in {MkConfig("local", FALSE, FALSE, k) : k \in OptionKeyMaps}
    /\ last = NoCall
    /\ norm = NoNormalization
    /\ entry = NoEntry
    /\ remote = NoRemote
    /\ life = ProviderExists
    /\ running = NoneRunning
    /\ tracking = NoTracking
    /\ projection = NoProjected

NextNormalize ==
    \/ NormalizeContextN
    \/ NormalizeContextAgain

SpecNormalize == InitNormalize /\ [][NextNormalize]_vars

(* DefaultKeyMap() looked up                                               *)

InitKeyMap ==
    /\ state = NotReadyState
    /\ config = MkConfig("local", FALSE, FALSE, NilKeyMap)
    /\ last = NoCall
    /\ norm = NoNormalization
    /\ entry = NoEntry
    /\ remote = NoRemote
    /\ life = ProviderExists
    /\ running = NoneRunning
    /\ tracking = NoTracking
    /\ projection = NoProjected

NextKeyMap ==
    \/ LookupPermutation
    \/ LookupTargetingKey

SpecKeyMap == InitKeyMap /\ [][NextKeyMap]_vars

(* The remote client adapter and its cache                                 *)

RemoteEvaluateR == RemoteEvaluate(RemoteUsers, RemoteFetches)

InitRemote ==
    /\ state = NotReadyState
    /\ config = MkConfig("remote", TRUE, FALSE, NilKeyMap)
    /\ last = NoCall
    /\ norm = NoNormalization
    /\ entry = NoEntry
    /\ remote \in Remotes
    /\ life = ProviderExists
    /\ running = NoneRunning
    /\ tracking = NoTracking
    /\ projection = NoProjected

NextRemote == RemoteEvaluateR

SpecRemote == InitRemote /\ [][NextRemote]_vars

(* Construction, the lifecycle and evaluations, from before NewFromConfig  *)

NewProviderL == NewProvider(ConfigInputs)
BooleanEvaluationL == Evaluation("Boolean", Flags, BooleanDefault, IdentityContexts, OneMap)
StringEvaluationL == Evaluation("String", Flags, StringDefault, IdentityContexts, OneMap)
FloatEvaluationL == Evaluation("Float", Flags, FloatDefault, IdentityContexts, OneMap)
IntEvaluationL == Evaluation("Int", Flags, IntDefault, IdentityContexts, OneMap)
ObjectEvaluationL == Evaluation("Object", Flags, ObjectDefault, IdentityContexts, OneMap)

InitLifecycle ==
    /\ state = NilProvider
    /\ config = NoConfig
    /\ last = NoCall
    /\ norm = NoNormalization
    /\ entry = NoEntry
    /\ remote = NoRemote
    /\ life = NoLife
    /\ running = NoneRunning
    /\ tracking = NoTracking
    /\ projection = NoProjected

NextLifecycle ==
    \/ NewProviderL
    \/ ProviderInit
    \/ Shutdown
    \/ BooleanEvaluationL
    \/ StringEvaluationL
    \/ FloatEvaluationL
    \/ IntEvaluationL
    \/ ObjectEvaluationL

SpecLifecycle == InitLifecycle /\ [][NextLifecycle]_vars

(* Evaluations of several goroutines on one Ready provider, step by step   *)

\* goroutine g calls an evaluation method: evaluateFlag reads p.state and
\* returns when the provider is not Ready
BeginEvaluation(g) ==
    /\ life.provider
    /\ running[g].pc = "idle"
    /\ \/ /\ state # ReadyState
          /\ EvaluationRecord("Boolean", Flags, BooleanDefault, IdentityContexts, OneMap)
          /\ Exposed
          /\ UNCHANGED running
       \/ /\ state = ReadyState
          /\ running' = [running EXCEPT ![g].pc = "getKeyMap"]
          /\ UNCHANGED <<last, tracking>>
    /\ UNCHANGED <<state, config, norm, entry, remote, life, projection>>

\* g tests c.KeyMap == nil
TestKeyMap(g) ==
    /\ running[g].pc = "getKeyMap"
    /\ running' = [running EXCEPT ![g].pc =
                      IF config.KeyMap = NilKeyMap THEN "assign" ELSE "normalize"]
    /\ UNCHANGED <<state, config, last, norm, entry, remote, life, tracking, projection>>

\* g assigns c.KeyMap = DefaultKeyMap()
AssignKeyMap(g) ==
    /\ running[g].pc = "assign"
    /\ config' = [config EXCEPT !.KeyMap = BuiltKeyMap]
    /\ running' = [running EXCEPT ![g] =
                      Running("normalize", TRUE,
                              \E h \in Goroutines \ {g} : running[h].pc # "idle")]
    /\ UNCHANGED <<state, last, norm, entry, remote, life, tracking, projection>>

\* g normalizes the context with the key map getKeyMap returned and runs
\* the call to its end
EndEvaluation(g) ==
    /\ running[g].pc = "normalize"
    /\ EvaluationRecord("Boolean", Flags, BooleanDefault, IdentityContexts, OneMap)
    /\ Exposed
    /\ running' = [running EXCEPT ![g].pc = "idle"]
    /\ UNCHANGED <<state, config, norm, entry, remote, life, projection>>

InitConcurrent ==
    /\ state = ReadyState
    /\ config \in Configs
    /\ last = NoCall
    /\ norm = NoNormalization
    /\ entry = NoEntry
    /\ remote = NoRemote
    /\ life = ProviderExists
    /\ running = NoneRunning
    /\ tracking = NoTracking
    /\ projection = NoProjected

NextConcurrent ==
    \E g \in Goroutines :
       \/ BeginEvaluation(g)
       \/ TestKeyMap(g)
       \/ AssignKeyMap(g)
       \/ EndEvaluation(g)

SpecConcurrent == InitConcurrent /\ [][NextConcurrent]_vars

(* Provider.Track on a provider with and without analytics client         *)

TrackT == Track(TrackingNames, EventContexts, EventDetails, EventNormalizerEffects)

InitTrack ==
    /\ state = NotReadyState
    /\ config = MkConfig("local", FALSE, FALSE, NilKeyMap)
    /\ last = NoCall
    /\ norm = NoNormalization
    /\ entry = NoEntry
    /\ remote = NoRemote
    /\ life = ProviderExists
    /\ running = NoneRunning
    /\ tracking \in {Tracking(c, NilAssignment, <<>>) : c \in BOOLEAN}
    /\ projection = NoProjected

NextTrack == TrackT

SpecTrack == InitTrack /\ [][NextTrack]_vars

(* The lifecycle and the evaluations of a provider with and without        *)
(* analytics client                                                        *)

BooleanEvaluationX == Evaluation("Boolean", Flags, BooleanDefault, Contexts, FewMaps)
StringEvaluationX == Evaluation("String", Flags, StringDefault, Contexts, FewMaps)
FloatEvaluationX == Evaluation("Float", Flags, FloatDefault, Contexts, FewMaps)
IntEvaluationX == Evaluation("Int", Flags, IntDefault, Contexts, FewMaps)
ObjectEvaluationX == Evaluation("Object", Flags, ObjectDefault, Contexts, FewMaps)

InitExposure ==
    /\ state = NotReadyState
    /\ config \in {MkConfig(c, FALSE, FALSE, NilKeyMap) : c \in {"local", "remote"}}
    /\ last = NoCall
    /\ norm = NoNormalization
    /\ entry = NoEntry
    /\ remote = NoRemote
    /\ life = ProviderExists
    /\ running = NoneRunning
    /\ tracking \in {Tracking(c, NilAssignment, <<>>) : c \in BOOLEAN}
    /\ projection = NoProjected

NextExposure ==
    \/ ProviderInit
    \/ Shutdown
    \/ BooleanEvaluationX
    \/ StringEvaluationX
    \/ FloatEvaluationX
    \/ IntEvaluationX
    \/ ObjectEvaluationX

SpecExposure == InitExposure /\ [][NextExposure]_vars

----------------------------------------------------------------------------
(* Properties                                                              *)

FailedStages == {"readiness", "projection", "call", "lookup"}

StringTypes == {"string", "json.Number"}

OtherTypes == {"bool", "[]any", "map[string]any", "int64"}

CollectionTypes == {"[]any", "map[string]any"}

Unresolved == {DefaultReason, ErrorReason}

Evaluated == last.method # "none"

\* the last call returned the caller's default as an intentional default
IsDefaulted ==
    /\ last.detail.Value = last.defaultValue
    /\ last.detail.Reason = DefaultReason
    /\ last.detail.ResolutionError = ""
    /\ last.detail.Variant = ""

\* the last call returned the caller's default with an error of kind
IsError(kind) ==
    /\ last.detail.Value = last.defaultValue
    /\ last.detail.Reason = ErrorReason
    /\ last.detail.ResolutionError = kind

\* the last call resolved to value v
IsResolved(v) ==
    /\ last.detail.Value = v
    /\ last.detail.ResolutionError = ""
    /\ last.detail.Reason \notin Unresolved
    /\ last.detail.Variant = last.variant.Key

\* the client returned for the flag a variant that is not the off variant
NonOff(method) ==
    /\ last.method = method
    /\ last.found
    /\ last.variant.Key # variantKeyOff

ErrorKinds ==
    {ProviderNotReadyCode, GeneralCode, InvalidContextCode, FlagNotFoundCode,
     TypeMismatchCode}

\* C1: every evaluation call returns a resolution detail (it does not
\* panic), and a call that failed at any stage returns the caller's default
\* with reason ERROR and an error kind.
C1_AlwaysReturns ==
    Evaluated =>
        /\ ~last.panicked
        /\ (last.stage \in FailedStages
               => \E kind \in ErrorKinds : IsError(kind))

IsTruncation(i, m, e) ==
    IF m >= 0
    THEN i * Pow10(e) <= m /\ m < (i + 1) * Pow10(e)
    ELSE (i - 1) * Pow10(e) < m /\ m <= i * Pow10(e)

C7_ObjectCoercion ==
    NonOff("Object") =>
        LET p == last.variant.Payload
        IN  /\ p.t \in CollectionTypes => IsResolved(p)
            /\ p.t = "nil" =>
                 /\ last.detail.Value = last.defaultValue
                 /\ last.detail.Reason = DefaultReason

\* the three shapes of a resolution detail
ShapeResolved ==
    /\ NonOff(last.method)
    /\ last.variant.Payload.t # "nil" \/ last.method = "Boolean"
    /\ last.detail.Variant = last.variant.Key
    /\ last.detail.FlagMetadata = <<last.variant.Key, last.variant.Value>>
    /\ last.detail.ResolutionError = ""
    /\ last.detail.Reason \notin Unresolved

ShapeDefaulted ==
    /\ IsDefaulted
    /\ last.detail.FlagMetadata = NoMetadata

ShapeError ==
    /\ \E kind \in ErrorKinds : IsError(kind)
    /\ last.detail.Variant = ""
    /\ last.detail.FlagMetadata = NoMetadata

\* C8: every resolution detail returned is resolved (a value of the
\* variant, the variant's key, metadata of the variant's key and value, no
\* error), intentionally defaulted (the default, reason DEFAULT, no error,
\* no variant key, no metadata) or defaulted on error (the default, reason
\* ERROR, an error kind, no variant key, no metadata); a default returned
\* for an absent payload carries no variant key and no metadata.
C8_ThreeShapes ==
    (Evaluated /\ ~last.panicked) =>
        /\ ShapeResolved \/ ShapeDefaulted \/ ShapeError
        /\ (last.found /\ last.variant.Payload.t = "nil" /\ last.method # "Boolean")
              => (last.detail.Variant = "" /\ last.detail.FlagMetadata = NoMetadata)

\* C9: the stage at which an evaluation fails fixes the error kind:
\* NotReady gives PROVIDER_NOT_READY, Error gives GENERAL, a failure to
\* build the user (no identity, a value that cannot be serialized, a
\* UserNormalizer error) gives INVALID_CONTEXT, an error of the client's
\* Evaluate gives GENERAL, a variant map without the flag gives
\* FLAG_NOT_FOUND.
C9_ErrorKindByStage ==
    (Evaluated /\ ~last.panicked) =>
        /\ last.state = NotReadyState => IsError(ProviderNotReadyCode)
        /\ last.state = ErrorState => IsError(GeneralCode)
        /\ (last.state = ReadyState /\ last.userErr # "") => IsError(InvalidContextCode)
        /\ (last.called /\ last.callErr) => IsError(GeneralCode)
        /\ (last.called /\ ~last.callErr /\ ~last.found) => IsError(FlagNotFoundCode)

C9_Witness ==
    /\ Evaluated
    /\ last.state = ErrorState
    /\ IsError(GeneralCode)

\* C10: an evaluation that projects its context onto a user with neither a
\* non-empty user_id nor a non-empty device_id (after key mapping and the
\* UserNormalizer) returns the default with reason ERROR and kind
\* INVALID_CONTEXT; a user with one of them non-empty passes the identity
\* check.
C10_IdentityRequired ==
    (Evaluated /\ last.state = ReadyState) =>
        /\ (last.user.UserId = "" /\ last.user.DeviceId = "")
              => IsError(InvalidContextCode)
        /\ (last.user.UserId # "" \/ last.user.DeviceId # "")
              => last.userErr # "identity"
        /\ (last.userErr = "") => last.called

C10_Witness ==
    /\ Evaluated
    /\ config.normalizer
    /\ last.userErr = "identity"
    /\ CustomProp \in DOMAIN last.user.UserProperties
    /\ IsError(InvalidContextCode)

\* the attribute names of the last normalizeContext call that are entries
\* of the key map it read
MappedNames ==
    {k \in DOMAIN norm.contextMap : k \in DOMAIN getKeyMap(norm.KeyMap)}

DeviceIdSpellings == {KeyDeviceID, DeviceIdCamel, DeviceIdKebab, DeviceIDPascal}

\* C12: under the default key map the map {"device-id": "d1", "Country":
\* "US"} normalizes to device_id = "d1" and country = "US" with nothing in
\* extra, and the spellings device_id, deviceId, device-id and DeviceID
\* all resolve to device_id.
C12_CapitalisedSpellings ==
    (norm.called /\ norm.KeyMap # SetKeyMap) =>
        /\ norm.contextMap =
               [k \in {DeviceIdKebab, CountryCapitalised} |->
                   IF k = DeviceIdKebab THEN CtxString("d1") ELSE CtxString("US")]
              => /\ norm.normalized =
                       [K \in {KeyDeviceID, KeyCountry} |->
                           IF K = KeyDeviceID THEN CtxString("d1") ELSE CtxString("US")]
                 /\ DOMAIN norm.extra = {}
        /\ \A s \in DeviceIdSpellings :
              s \in DOMAIN norm.contextMap
                 => /\ KeyDeviceID \in DOMAIN norm.normalized
                    /\ s \notin DOMAIN norm.extra

\* C20: normalizeContext called again on the same attribute map with the
\* same key map returns the same normalized map and the same extra map,
\* also when the map holds two spellings of one canonical key with
\* different values.
C20_NormalizeDeterministic ==
    (norm.called /\ norm.again) =>
        /\ norm.normalized = norm.before.normalized
        /\ norm.extra = norm.before.extra

\* C13: every permutation makePermutations gives for a key of the
\* registry is an entry of DefaultKeyMap() whose value is that key, and
\* the targeting key is an entry whose value is user_id.
C13_PermutationsMapToKey ==
    entry.looked =>
        /\ entry.found.ok
        /\ entry.found.resolvedKey = entry.key

C13_Witness ==
    /\ entry.looked
    /\ entry.key = KeyRevenueType
    /\ entry.perm = <<"r", "e", "v", "e", "n", "u", "e", "-", "t", "y", "p", "e">>
    /\ entry.found.resolvedKey = KeyRevenueType

FetchedVariants == ~remote.call.fetch.err

\* C15: in the remote adapter an error of the cache does not fail the
\* evaluation: when Get returns an error the adapter calls FetchV2 and
\* returns its variants, and when Set returns an error after FetchV2
\* returned variants the adapter returns those variants and no error.
C15_CacheErrorsNotFatal ==
    (remote.call.made /\ remote.hasCache /\ ~EncodeFails(remote.call.user)) =>
        /\ (remote.cache.getErr /\ ~remote.cache.setErr) =>
              /\ remote.call.calls[2] = "FetchV2"
              /\ FetchedVariants => remote.call.result = Returned(remote.call.fetch.variants)
        /\ (remote.cache.setErr /\ FetchedVariants
               /\ \E i \in DOMAIN remote.call.calls : remote.call.calls[i] = "Set") =>
              remote.call.result = Returned(remote.call.fetch.variants)

\* C16: with a cache whose Get and Set work, once Evaluate has returned
\* variants for a user every later Evaluate for an equal user returns
\* those variants from the cache and does not call FetchV2; and whenever
\* the adapter has a cache, Get is called before FetchV2.
C16_CacheHitSkipsFetch ==
    (remote.call.made /\ remote.hasCache) =>
        /\ (~remote.cache.getErr /\ ~remote.cache.setErr /\ remote.call.known) =>
              /\ remote.call.result = Returned(remote.first[cacheKey(remote.call.user)])
              /\ remote.call.calls = <<"Get">>
        /\ (\E i \in DOMAIN remote.call.calls : remote.call.calls[i] = "FetchV2") =>
              /\ remote.call.calls[1] = "Get"
              /\ remote.call.calls[2] = "FetchV2"

C16_Witness ==
    /\ remote.call.made
    /\ remote.hasCache
    /\ ~remote.cache.getErr /\ ~remote.cache.setErr
    /\ remote.call.known
    /\ ~remote.call.fetch.err
    /\ remote.call.fetch.variants # remote.first[cacheKey(remote.call.user)]
    /\ remote.call.result = Returned(remote.first[cacheKey(remote.call.user)])

\* C17: a newly constructed provider is NotReady; Init leaves it Ready and
\* returns nil when client.Start succeeds, leaves it in Error and returns
\* the very error Start returned when Start fails; Shutdown leaves it
\* NotReady whatever state it found; and an evaluation that ends without
\* a resolution error ran in state Ready
C17_Lifecycle ==
    /\ (life.op = "NewFromConfig" /\ life.provider) => state = NotReadyState
    /\ (life.op = "Init" /\ life.startErr = "") =>
           state = ReadyState /\ life.err = ""
    /\ (life.op = "Init" /\ life.startErr # "") =>
           state = ErrorState /\ life.err = life.startErr
    /\ life.op = "Shutdown" => state = NotReadyState
    /\ (last.method # "none" /\ ~last.panicked /\ last.detail.ResolutionError = "") =>
           last.state = ReadyState

\* Init failed on the injected adapter's error, after a successful
\* evaluation and a Shutdown found the provider Ready
C17_Witness ==
    /\ life.op = "Init"
    /\ life.startErr = errMockStart
    /\ life.err = errMockStart
    /\ life.before = NotReadyState
    /\ state = ErrorState
    /\ last.method = "Boolean"
    /\ last.state = ReadyState
    /\ last.detail.ResolutionError = ""

RacingAssignment ==
    \E g \in Goroutines : running[g].wrote /\ running[g].overlapped

\* C19: evaluation calls of several goroutines need no synchronization:
\* whenever a goroutine is in a call the key map is already built, no call
\* assigns config.KeyMap, and so no assignment of it happens while
\* another goroutine is in a call
C19_EvaluationsOnlyRead ==
    /\ \A g \in Goroutines : running[g].pc # "idle" => config.KeyMap # NilKeyMap
    /\ \A g \in Goroutines : ~running[g].wrote
    /\ ~RacingAssignment

\* C21: when the flag's variant is not the off variant and has no
\* payload, BooleanEvaluation returns true with no error, and each of
\* StringEvaluation, IntEvaluation, FloatEvaluation and ObjectEvaluation
\* returns a resolution error
C21_NoPayloadIsTrueOrError ==
    (/\ Evaluated
     /\ ~last.panicked
     /\ last.found
     /\ last.variant.Key # variantKeyOff
     /\ last.variant.Payload = NilVal) =>
        IF last.method = "Boolean"
        THEN /\ last.detail.Value = BoolVal(TRUE)
             /\ last.detail.ResolutionError = ""
        ELSE last.detail.ResolutionError # ""

\* C22: after NewFromConfig took its local case, a populated
\* LocalConfig.AssignmentConfig with no AnalyticsConfig leaves the provider
\* with an analytics client, and an AnalyticsConfig with no
\* AssignmentConfig leaves the local client created with an
\* AssignmentConfig built from the AnalyticsConfig
C22_TrackingFromEitherSide ==
    (life.op = "NewFromConfig" /\ life.provider /\ TakesLocalCase(life.input)) =>
        /\ (life.input.AssignmentConfig /\ ~life.input.AnalyticsConfig) =>
              tracking.client
        /\ (life.input.AnalyticsConfig /\ ~life.input.AssignmentConfig) =>
              tracking.assignment = BuiltAssignment

\* C23: with a UserNormalizer configured, an evaluation of a Ready
\* provider whose context key mapping turned into a user record calls the
\* normalizer with the context the evaluation was called with and with
\* that record; the record as the normalizer leaves it is the one
\* client.Evaluate receives; and when the normalizer returns an error the
\* client is not called and the caller's default is returned with reason
\* ERROR and a resolution error
C23_UserNormalizer ==
    (/\ Evaluated
     /\ config.normalizer
     /\ last.state = ReadyState
     /\ last.userErr \notin {"marshal", "unmarshal"}) =>
        /\ last.normalizer.called
        /\ last.normalizer.original
        /\ last.normalizer.effect = "keep" => last.user = last.normalizer.User
        /\ last.normalizer.effect = "setUserId" =>
              /\ last.user = [last.normalizer.User EXCEPT !.UserId = "normalized"]
              /\ last.called
        /\ last.normalizer.effect = "clearIds" =>
              last.user = [last.normalizer.User EXCEPT !.UserId = "", !.DeviceId = ""]
        /\ last.normalizer.effect = "error" =>
              /\ ~last.called
              /\ last.userErr = "normalize"
              /\ IsError(InvalidContextCode)

\* the normalizer changed the user id of a key-mapped record and the
\* client was called with the changed record
C23_Witness ==
    /\ Evaluated
    /\ config.normalizer
    /\ last.normalizer.called
    /\ last.normalizer.effect = "setUserId"
    /\ last.normalizer.User.UserId = "u1"
    /\ last.called
    /\ last.user.UserId = "normalized"
    /\ last.found

\* C28: the identity check comes after the UserNormalizer: when the
\* key-mapped record has neither user id nor device id and the normalizer
\* sets the user id, the record passes and the client is called; when the
\* record has an identity and the normalizer clears both ids, the
\* evaluation fails with INVALID_CONTEXT and the client is not called
C28_IdentityAfterNormalizer ==
    (Evaluated /\ last.normalizer.called) =>
        /\ (/\ last.normalizer.effect = "setUserId"
            /\ last.normalizer.User.UserId = ""
            /\ last.normalizer.User.DeviceId = "") =>
               /\ last.userErr = ""
               /\ last.called
        /\ (/\ last.normalizer.effect = "clearIds"
            /\ (last.normalizer.User.UserId # "" \/ last.normalizer.User.DeviceId # "")) =>
               /\ last.userErr = "identity"
               /\ ~last.called
               /\ IsError(InvalidContextCode)

\* a context with no identity key passed because the normalizer set the
\* user id
C28_Witness ==
    /\ Evaluated
    /\ last.normalizer.called
    /\ last.normalizer.effect = "setUserId"
    /\ last.normalizer.User.UserId = ""
    /\ last.normalizer.User.DeviceId = ""
    /\ last.userErr = ""
    /\ last.called
    /\ last.user.UserId = "normalized"

\* toAmplitudeEvent built an event in the last call of Track
EventBuilt == tracking.track.called /\ tracking.track.err = ""

\* the context or the details of the last call of Track hold a revenue
\* attribute
HasRevenueAttribute ==
    \/ KeyRevenue \in DOMAIN tracking.track.details.Attributes
    \/ KeyRevenue \in DOMAIN tracking.track.evalCtx.Attributes

C25_OneClientCall ==
    Evaluated =>
        /\ Len(last.clientCalls) <= 1
        /\ \A i \in 1..Len(last.clientCalls) :
              /\ last.clientCalls[i].flagKeys = <<last.flag>>
              /\ last.clientCalls[i].user = last.user
        /\ (last.state # ReadyState \/ last.userErr # "") => last.clientCalls = <<>>
        /\ (last.state = ReadyState /\ last.userErr = "") => Len(last.clientCalls) = 1
        /\ last.callErr => Len(last.clientCalls) = 1

\* client.Evaluate failed and was called once, with the flag
C25_Witness ==
    /\ Evaluated
    /\ last.callErr
    /\ last.clientCalls = <<[user |-> last.user, flagKeys |-> <<"test-flag">>]>>
    /\ IsError(GeneralCode)

----------------------------------------------------------------------------
\* Contexts that carry user properties: a targeting key or none, an
\* explicit user_properties map or none, and the attributes custom_prop and
\* other_prop, which the default key map does not know

PropertyNames == {CustomProp, OtherProp}

ExplicitMaps ==
    UNION {[D -> {CtxString("explicit")}] : D \in SUBSET PropertyNames}

PropertyContexts ==
    UNION {{[k \in D |->
               CASE k = TargetingKey      -> CtxString("u1")
                 [] k = KeyUserProperties -> CtxMap(m)
                 [] OTHER                 -> a[k]] :
            m \in ExplicitMaps,
            a \in [PropertyNames -> {CtxString("attribute"), CtxString("explicit")}]} :
           D \in SUBSET PropertyAttributeNames}

ToAmplitudeUserU == ToAmplitudeUser(PropertyContexts)

InitProperties ==
    /\ state = ReadyState
    /\ config \in {MkConfig("local", FALSE, n, k) : n \in BOOLEAN, k \in OptionKeyMaps}
    /\ last = NoCall
    /\ norm = NoNormalization
    /\ entry = NoEntry
    /\ remote = NoRemote
    /\ life = ProviderExists
    /\ running = NoneRunning
    /\ tracking = NoTracking
    /\ projection = NoProjected

NextProperties == ToAmplitudeUserU

SpecProperties == InitProperties /\ [][NextProperties]_vars

\* the attributes of the projected context that the key map sends to the
\* canonical key user_properties and hold a map, and the attributes that
\* match no key of the key map
ExplicitAttributes ==
    {k \in DOMAIN projection.evalCtx :
        /\ lookups[projection.KeyMap][k].ok
        /\ lookups[projection.KeyMap][k].resolvedKey = KeyUserProperties
        /\ projection.evalCtx[k].k = "map"}

UnmappedAttributes ==
    {k \in DOMAIN projection.evalCtx : ~lookups[projection.KeyMap][k].ok}

\* C26: a successful toAmplitudeUser returns a user whose UserProperties
\* holds exactly the names of the explicit user_properties map and of the
\* attributes that matched no canonical key; a name of an unmapped
\* attribute holds that attribute's value, also when the explicit map has
\* the name too, and every other name holds the explicit map's value
C26_PropertiesMerged ==
    (projection.called /\ projection.err = "") =>
        LET props == projection.user.UserProperties
            explicitNames ==
                UNION {DOMAIN projection.evalCtx[k].m : k \in ExplicitAttributes}
        IN  /\ DOMAIN props = explicitNames \cup UnmappedAttributes
            /\ \A n \in UnmappedAttributes : props[n] = projection.evalCtx[n]
            /\ \A n \in explicitNames \ UnmappedAttributes :
                 \E k \in ExplicitAttributes : props[n] = projection.evalCtx[k].m[n]

\* an explicit map with custom_prop and other_prop, an attribute custom_prop
\* of another value: the user holds the attribute's custom_prop and the
\* map's other_prop
C26_Witness ==
    /\ projection.called
    /\ projection.err = ""
    /\ KeyUserProperties \in ExplicitAttributes
    /\ DOMAIN projection.evalCtx[KeyUserProperties].m = PropertyNames
    /\ UnmappedAttributes = {CustomProp}
    /\ projection.evalCtx[CustomProp] = CtxString("attribute")
    /\ projection.user.UserProperties[CustomProp] = CtxString("attribute")
    /\ projection.user.UserProperties[OtherProp] = CtxString("explicit")

----------------------------------------------------------------------------
\* C27: with p.analyticsClient set, the evaluation that ended last handed
\* one event to analyticsClient.Track if the flag was in the map the client
\* returned, and none if it was not; without an analytics client it handed
\* none.  The event has type "$exposure" and carries the flag key and the
\* variant's key.  An evaluation that ended at the readiness test, at the
\* projection, at the client call or at the lookup sent none; one that
\* found the off variant, or a variant whose payload is of another type
\* than the method's, sent one.
C27_ExposureIffFound ==
    Evaluated =>
        /\ Len(tracking.sent) <= 1
        /\ (Len(tracking.sent) = 1) <=> (tracking.client /\ last.found)
        /\ \A i \in DOMAIN tracking.sent :
             /\ tracking.sent[i].EventType = "$exposure"
             /\ tracking.sent[i].EventProperties.flag_key = last.flag
             /\ tracking.sent[i].EventProperties.variant = last.variant.Key
        /\ last.stage \in FailedStages => tracking.sent = <<>>
        /\ (tracking.client /\ last.found /\ last.variant.Key = variantKeyOff) =>
               Len(tracking.sent) = 1
        /\ (tracking.client /\ IsError(TypeMismatchCode)) => Len(tracking.sent) = 1

\* an evaluation that found the off variant and sent its exposure
C27_Witness ==
    /\ Evaluated
    /\ tracking.client
    /\ last.found
    /\ last.variant.Key = variantKeyOff
    /\ last.detail.Reason = DefaultReason
    /\ Len(tracking.sent) = 1
    /\ tracking.sent[1].EventProperties.variant = variantKeyOff

\* an evaluation that ended with a type mismatch and sent its exposure
C27_WitnessTypeMismatch ==
    /\ Evaluated
    /\ tracking.client
    /\ IsError(TypeMismatchCode)
    /\ Len(tracking.sent) = 1

----------------------------------------------------------------------------
\* C29: a step that records an evaluation leaves the lifecycle state as it
\* was, whatever the evaluation's outcome, and the state is always the one
\* the last of NewFromConfig, Init and Shutdown set: NotReady after
\* NewFromConfig and after Shutdown, Ready after an Init whose client.Start
\* succeeded, Error after one whose client.Start failed
C29_EvaluationsKeepState ==
    /\ [][last' # last => state' = state]_vars
    /\ [](life.provider =>
            state = CASE life.op = "Init" /\ life.startErr = "" -> ReadyState
                      [] life.op = "Init" /\ life.startErr # "" -> ErrorState
                      [] OTHER                                  -> NotReadyState)

\* client.Evaluate failed in an evaluation on a Ready provider, and the
\* provider is Ready as Init left it
C29_Witness ==
    /\ Evaluated
    /\ last.state = ReadyState
    /\ last.callErr
    /\ IsError(GeneralCode)
    /\ life.op = "Init"
    /\ life.startErr = ""
    /\ state = ReadyState

----------------------------------------------------------------------------
\* the calls of Cache.Set in the last call of clientAdapterRemote.Evaluate
SetCalls(call) == {i \in DOMAIN call.calls : call.calls[i] = "Set"}

\* C30: a call of clientAdapterRemote.Evaluate calls Cache.Set at most once,
\* as its last call and after Cache.Get and FetchV2, only when the adapter
\* has a cache, Cache.Get returned an error or no value for the user's key,
\* and FetchV2 succeeded.  The call changes the cache only through that
\* Cache.Set, which stores the map FetchV2 returned under the key of the
\* user and nothing else.  When FetchV2 fails and when Cache.Get returns a
\* value, Cache.Set is not called and the cache is as it was.
C30_CacheWrittenOnceOnMiss ==
    [][remote'.call.made =>
         LET call == remote'.call
             key  == cacheKey(call.user)
             hit  == /\ remote.hasCache
                     /\ ~remote.cache.getErr
                     /\ key \in DOMAIN remote.cache.data
             sets == SetCalls(call)
         IN  /\ Cardinality(sets) <= 1
             /\ sets # {} =>
                  /\ remote.hasCache
                  /\ ~hit
                  /\ ~call.fetch.err
                  /\ call.calls = <<"Get", "FetchV2", "Set">>
             /\ remote'.cache # remote.cache =>
                  /\ sets # {}
                  /\ DOMAIN remote'.cache.data = (DOMAIN remote.cache.data) \cup {key}
                  /\ remote'.cache.data[key] = call.fetch.variants
                  /\ \A k \in (DOMAIN remote.cache.data) \ {key} :
                       remote'.cache.data[k] = remote.cache.data[k]
             /\ (sets # {} /\ ~remote.cache.setErr) =>
                  /\ key \in DOMAIN remote'.cache.data
                  /\ remote'.cache.data[key] = call.fetch.variants
             /\ (call.fetch.err \/ hit) =>
                  /\ sets = {}
                  /\ remote'.cache = remote.cache
             /\ remote'.hasCache = remote.hasCache
    ]_vars

\* Cache.Get found nothing, FetchV2 returned a map with a flag, and the
\* cache holds that map under the key of the user
C30_Witness ==
    /\ remote.call.made
    /\ remote.hasCache
    /\ remote.call.calls = <<"Get", "FetchV2", "Set">>
    /\ ~remote.call.fetch.err
    /\ remote.call.fetch.variants # EmptyVariants
    /\ cacheKey(remote.call.user) \in DOMAIN remote.cache.data
    /\ remote.cache.data[cacheKey(remote.call.user)] = remote.call.fetch.variants
    /\ ~remote.call.result.err

============================================================================
